---- MODULE Spec2Model ----
(***************************************************************************)
(* A model of the Hinton bytecode compiler: the chunk writer and emitter,  *)
(* the symbol resolver, the expression handlers of                         *)
(* src/compiler/expressions.rs, the statement handlers of                  *)
(* src/compiler/statements.rs and the function handlers of                 *)
(* src/compiler/functions.rs.                                              *)
(*                                                                         *)
(* The compiler object is threaded through the handlers as a record        *)
(* `self`; a handler that returns a value yields [self |-> .., ret |-> ..].*)
(***************************************************************************)
EXTENDS Integers, Sequences, FiniteSets, TLC

VARIABLES functions, globals, compiler_type, errors, is_in_panic, prev, program,
          lexer, operands

vars == <<functions, globals, compiler_type, errors, is_in_panic, prev, program,
          lexer, operands>>

\* Number of top-level nodes handed to the compiler in one run.
MaxNodes == 2

\* Operand widths: one byte holds 0..255, a short holds 0..65535.
U8Limit == 256
U8Max == 255
U16Max == 65535
U16Limit == 65536

(***************************************************************************)
(* Tokens, objects and AST nodes                                           *)
(***************************************************************************)
Tok(lexeme) == [lexeme |-> lexeme, line_num |-> 1, column_num |-> 1]

\* Object variants that occur as compile-time literals.  A Float is
\* represented by the integer it equals (only whole floats are drawn).
ObjInt(x) == [type |-> "Int", int |-> x]
ObjFloat(x) == [type |-> "Float", float |-> x]
ObjBool(x) == [type |-> "Bool", bool |-> x]
ObjNull == [type |-> "Null"]
ObjString(s) == [type |-> "String", str |-> s]
ObjFunction(f) == [type |-> "Function", func |-> f]

None == [kind |-> "None"]

LiteralExprNode(value) == [kind |-> "Literal", value |-> value, token |-> Tok("lit")]
UnaryExprNode(opr_type, operand) ==
    [kind |-> "Unary", opr_type |-> opr_type, operand |-> operand, pos |-> <<1, 1>>]
BinaryExprNode(opr_type, left, right) ==
    [kind |-> "Binary", opr_type |-> opr_type, left |-> left, right |-> right,
     opr_token |-> Tok(opr_type)]
IdentifierExprNode(name) == [kind |-> "Identifier", token |-> Tok(name)]
VarReassignmentExprNode(target, opr_type, value) ==
    [kind |-> "VarReassignment", target |-> Tok(target), opr_type |-> opr_type, value |-> value]
ObjectGetExprNode(target, getter) ==
    [kind |-> "ObjectGet", target |-> target, getter |-> Tok(getter)]
ObjectSetExprNode(target, setter, opr_type, value) ==
    [kind |-> "ObjectSet", target |-> target, setter |-> Tok(setter), opr_type |-> opr_type,
     value |-> value]
ArrayExprNode(values) == [kind |-> "Array", values |-> values, token |-> Tok("[")]
TupleExprNode(values) == [kind |-> "Tuple", values |-> values, token |-> Tok("(")]
ArrayIndexingExprNode(target, index) ==
    [kind |-> "ArrayIndexing", target |-> target, index |-> index, pos |-> <<1, 1>>]
Argument(value) == [value |-> value]
FunctionCallExprNode(target, args) ==
    [kind |-> "FunctionCall", target |-> target, args |-> args, pos |-> <<1, 1>>]
NewInstanceExprNode(target, args) ==
    [kind |-> "NewInstance", target |-> target, args |-> args, pos |-> <<1, 1>>]
ExpressionStmtNode(child) == [kind |-> "ExpressionStmt", child |-> child]
ReturnStmtNode(value) == [kind |-> "ReturnStmt", value |-> value, token |-> Tok("return")]
Parameter(name, is_optional, default) ==
    [name |-> Tok(name), is_optional |-> is_optional, default |-> default]
FunctionDeclNode(name, params, min_arity, max_arity, body) ==
    [kind |-> "FunctionDecl", name |-> Tok(name), params |-> params,
     arity |-> <<min_arity, max_arity>>, body |-> body]

Max(S) == CHOOSE x \in S : \A y \in S : y <= x
Min(S) == CHOOSE x \in S : \A y \in S : x <= y

\* body(value): the value is computed first, once, and then handed to the
\* steps that follow it.
Bind(value, body(_)) == IF {value} = {} THEN value ELSE body(value)

\* next(state): the compiler state is computed first, and the next step
\* runs on it.
Step(state, next(_)) == IF state.is_in_panic THEN next(state) ELSE next(state)

\* One element of Chunk.codes: an opcode byte or a raw operand byte.
Op(name) == [tag |-> "op", op |-> name, v |-> 0]
Raw(b) == [tag |-> "raw", op |-> "", v |-> b]

(***************************************************************************)
(* Chunk writer and emitter                                                *)
(***************************************************************************)
current_func_scope(self) == self.functions[Len(self.functions)]

current_chunk(self) == current_func_scope(self).function.chunk

\* The byte is appended and its position is not recorded.
push_byte_without_position(self, code, pos) ==
    [self EXCEPT !.functions[Len(self.functions)].function.chunk.codes = Append(@, code)]

push_byte(self, code, pos) ==
    [self EXCEPT !.functions[Len(self.functions)].function.chunk =
        [@ EXCEPT !.codes = Append(@, code), !.locations = Append(@, pos)]]

emit_op_code(self, instr, pos) == push_byte(self, Op(instr), pos)

emit_raw_byte(self, byte, pos) == push_byte(self, Raw(byte), pos)

\* Two operand bytes in big-endian order.
emit_raw_short(self, short, pos) ==
    emit_raw_byte(emit_raw_byte(self, short \div 256, pos), short % 256, pos)

emit_short(self, short, pos) == emit_raw_short(self, short, pos)

emit_op_code_with_byte(self, instr, byte, pos) ==
    emit_raw_byte(emit_op_code(self, instr, pos), byte, pos)

emit_op_code_with_short(self, instr, short, pos) ==
    emit_raw_short(emit_op_code(self, instr, pos), short, pos)

\* A diagnostic is dropped while the compiler is in panic mode; structural
\* (Syntax) diagnostics enter panic mode.
error_at_token(self, token, kind, msg) ==
    IF self.is_in_panic THEN self
    ELSE [self EXCEPT !.errors = Append(@, [kind |-> kind, lexeme |-> token.lexeme, msg |-> msg]),
                      !.is_in_panic = (kind = "Syntax")]

\* Position of an equal string constant in the pool, or 0.
constant_position(constants, obj) ==
    LET hits == {i \in 1..Len(constants) : obj.type = "String" /\ constants[i].type = "String" /\ constants[i].str = obj.str}
    IN IF hits # {} THEN Min(hits) ELSE 0

\* Chunk::add_constant: existing index of an equal string, else append;
\* Err when the pool is full.
add_constant(self, obj) ==
    LET constants == current_chunk(self).constants
        found == constant_position(constants, obj)
    IN IF found # 0 THEN [self |-> self, ret |-> found - 1]
       ELSE IF Len(constants) >= U16Limit THEN [self |-> self, ret |-> -1]
       ELSE [self |-> [self EXCEPT !.functions[Len(self.functions)].function.chunk.constants
                                        = Append(@, obj)],
             ret |-> Len(constants)]

add_literal_to_pool(self, obj, token, load) ==
    LET opr_pos == <<token.line_num, token.column_num>>
    IN Bind(add_constant(self, obj), LAMBDA r :
         IF r.ret >= 0
         THEN [self |-> IF load
                        THEN IF r.ret < U8Limit
                             THEN emit_op_code_with_byte(r.self, "LoadConstant", r.ret, opr_pos)
                             ELSE emit_op_code_with_short(r.self, "LoadConstantLong", r.ret, opr_pos)
                        ELSE r.self,
               ret |-> r.ret]
         ELSE [self |-> error_at_token(self, token, "MaxCapacity", "Too many constants in one chunk."),
               ret |-> -1])

\* Emits the jump opcode and a two-byte placeholder; returns the offset of
\* the placeholder.
emit_jump(self, instruction, token) ==
    LET pos == <<token.line_num, token.column_num>>
    IN Step(emit_raw_byte(emit_raw_byte(emit_op_code(self, instruction, pos), 255, pos), 255, pos),
            LAMBDA s : [self |-> s, ret |-> Len(current_chunk(s).codes) - 2])

\* Writes current_offset - (offset + 2) big-endian into the placeholder.
patch_jump(self, offset, token) ==
    LET jump == Len(current_chunk(self).codes) - offset - 2
    IN IF jump > U16Max
       THEN error_at_token(self, token, "MaxCapacity", "Too much code to jump over.")
       ELSE [self EXCEPT !.functions[Len(self.functions)].function.chunk.codes =
                [@ EXCEPT ![offset + 1] = Raw(jump \div 256), ![offset + 2] = Raw(jump % 256)]]

(***************************************************************************)
(* Symbol tables and the symbol resolver                                   *)
(***************************************************************************)
Symbol(name, s_type, is_initialized, depth, is_used) ==
    [name |-> name, s_type |-> s_type, is_initialized |-> is_initialized, depth |-> depth,
     is_used |-> is_used, is_captured |-> FALSE]

\* Symbol locations (SL).  The position is a pool index for globals, a
\* stack slot for locals and an upvalue slot for upvalues.
SL(variant, pos) == [variant |-> variant, pos |-> pos]

\* Indexes (1-based) of the symbols called `name` in a symbol table.
lookup(s_table, name) == {i \in 1..Len(s_table) : s_table[i].name = name}

is_global_scope(self) ==
    Len(self.functions) = 1 /\ current_func_scope(self).scope_depth = 0

relative_scope_depth(self) == 0

\* declare(name, kind): the global table is upserted in the global scope;
\* in a local scope a second symbol of the same name at the current depth
\* is an error.  The new symbol is not yet initialized, unless it is a
\* parameter (which has no initializer).
declare_symbol(self, token, s_type) ==
    LET scope == current_func_scope(self)
        sym == Symbol(token.lexeme, s_type, s_type = "Parameter", scope.scope_depth, FALSE)
    IN IF is_global_scope(self)
       THEN LET hits == lookup(self.globals, token.lexeme)
            IN IF hits # {}
               THEN [self |-> [self EXCEPT !.globals[Max(hits)] = sym], ret |-> Max(hits) - 1]
               ELSE [self |-> [self EXCEPT !.globals = Append(@, sym)],
                     ret |-> Len(self.globals)]
       ELSE IF \E i \in lookup(scope.s_table, token.lexeme) :
                   scope.s_table[i].depth = scope.scope_depth
            THEN [self |-> error_at_token(self, token, "Duplication",
                                          "Duplicated identifier in scope."),
                  ret |-> -1]
            ELSE [self |-> [self EXCEPT !.functions[Len(self.functions)].s_table = Append(@, sym)],
                  ret |-> Len(scope.s_table)]

mark_initialized(s_table, pos) == [s_table EXCEPT ![pos + 1].is_initialized = TRUE]

\* Removes (when pop_symbols) the trailing symbols of depth >= min_depth
\* and yields their captured flags in declaration order.
pop_scope(s_table, min_depth, pop_symbols) ==
    LET keep == {i \in 0..Len(s_table) : \A j \in (i + 1)..Len(s_table) : s_table[j].depth >= min_depth}
        first == Min(keep)
    IN [s_table |-> IF pop_symbols THEN SubSeq(s_table, 1, first) ELSE s_table,
        ret |-> [i \in 1..(Len(s_table) - first) |-> s_table[first + i].is_captured]]

\* Adds the descriptor (is_local, index) to the upvalue list of frame
\* func_idx unless it is already there; returns its slot.
add_up_value(self, func_idx, index, is_local) ==
    LET ups == self.functions[func_idx].up_values
        up == [is_local |-> is_local, index |-> index]
        hits == {i \in 1..Len(ups) : ups[i] = up}
    IN IF hits # {} THEN [self |-> self, ret |-> Min(hits) - 1]
       ELSE [self |-> [self EXCEPT !.functions[func_idx].up_values = Append(@, up),
                                   !.functions[func_idx].function.up_val_count = @ + 1],
             ret |-> Len(ups)]

\* Threads an upvalue from frame func_idx (which holds slot `index` as
\* a local when is_local, else as an upvalue) up to the current frame.
RECURSIVE chain_up_values(_, _, _, _)
chain_up_values(self, func_idx, index, is_local) ==
    Bind(add_up_value(self, func_idx + 1, index, is_local), LAMBDA r :
      IF func_idx + 1 = Len(self.functions) THEN r
      ELSE chain_up_values(r.self, func_idx + 1, r.ret, FALSE))

resolve_local(self, token, reassign) ==
    LET hits == lookup(current_func_scope(self).s_table, token.lexeme)
        i == Max(hits)
    IN IF ~current_func_scope(self).s_table[i].is_initialized
       THEN [self |-> error_at_token(self, token, "Reference",
                                     "Cannot reference a variable in its own initializer."),
             ret |-> SL("Error", 0)]
       ELSE [self |-> [self EXCEPT !.functions[Len(self.functions)].s_table[i].is_used = TRUE],
             ret |-> SL("Local", i - 1)]

resolve_up_value(self, token, reassign) ==
    LET frames == {k \in 1..(Len(self.functions) - 1) :
                       lookup(self.functions[k].s_table, token.lexeme) # {}}
    IN Bind(Min(frames), LAMBDA k :
       Bind(Max(lookup(self.functions[k].s_table, token.lexeme)), LAMBDA i :
       Bind(chain_up_values([self EXCEPT !.functions[k].s_table[i].is_captured = TRUE,
                                         !.functions[k].s_table[i].is_used = TRUE],
                            k, i - 1, TRUE), LAMBDA r :
         [self |-> r.self, ret |-> SL("UpValue", r.ret)])))

resolve_global(self, token) ==
    Bind(add_literal_to_pool(self, ObjString(token.lexeme), token, FALSE), LAMBDA r :
      [self |-> r.self, ret |-> IF r.ret >= 0 THEN SL("Global", r.ret) ELSE SL("Error", 0)])

\* resolve(name, for_assignment): local, then upvalue, then global table,
\* then an implicit global at reference sites.
resolve_symbol(self, token, reassign) ==
    IF lookup(current_func_scope(self).s_table, token.lexeme) # {}
    THEN resolve_local(self, token, reassign)
    ELSE IF \E k \in 1..(Len(self.functions) - 1) :
                lookup(self.functions[k].s_table, token.lexeme) # {}
    THEN resolve_up_value(self, token, reassign)
    ELSE IF lookup(self.globals, token.lexeme) # {} \/ ~reassign
    THEN resolve_global(self, token)
    ELSE [self |-> error_at_token(self, token, "Reference",
                                  "Cannot assign to an undeclared variable."),
          ret |-> SL("Error", 0)]

\* Emits the instruction that defines the global called token.lexeme.
define_as_global(self, token) ==
    LET pos == <<token.line_num, token.column_num>>
    IN Bind(add_literal_to_pool(self, ObjString(token.lexeme), token, FALSE), LAMBDA r :
         IF r.ret < 0 THEN r.self
         ELSE IF r.ret < U8Limit THEN emit_op_code_with_byte(r.self, "DefineGlobal", r.ret, pos)
         ELSE emit_op_code_with_short(r.self, "DefineGlobalLong", r.ret, pos))

(***************************************************************************)
(* Expression handlers (src/compiler/expressions.rs)                       *)
(***************************************************************************)
RECURSIVE compile_node(_, _)
RECURSIVE compile_nodes(_, _, _, _, _)

\* Compiles the nodes in order, or from the last to the first when rev;
\* lo..hi are positions in that order, and the range is split in halves
\* so that long literals stay shallow.
compile_nodes(self, nodes, lo, hi, rev) ==
    IF lo >= hi
    THEN IF lo > hi THEN self
         ELSE compile_node(self, nodes[IF rev THEN Len(nodes) + 1 - lo ELSE lo])
    ELSE Step(compile_nodes(self, nodes, lo, (lo + hi) \div 2, rev), LAMBDA first :
           compile_nodes(first, nodes, (lo + hi) \div 2 + 1, hi, rev))

compile_literal_expr(self, expr) ==
    LET obj == expr.value
        opr_pos == <<expr.token.line_num, expr.token.column_num>>
    IN CASE obj.type = "Bool" /\ obj.bool -> emit_op_code(self, "LoadImmTrue", opr_pos)
         [] obj.type = "Bool" /\ ~obj.bool -> emit_op_code(self, "LoadImmFalse", opr_pos)
         [] obj.type = "Int" /\ obj.int = 0 -> emit_op_code(self, "LoadImm0I", opr_pos)
         [] obj.type = "Int" /\ obj.int = 1 -> emit_op_code(self, "LoadImm1I", opr_pos)
         [] obj.type = "Float" /\ obj.float = 0 -> emit_op_code(self, "LoadImm0F", opr_pos)
         [] obj.type = "Float" /\ obj.float = 1 -> emit_op_code(self, "LoadImm1F", opr_pos)
         [] obj.type = "Null" -> emit_op_code(self, "LoadImmNull", opr_pos)
         [] obj.type = "Int" /\ obj.int > 1 ->
                IF obj.int < 256
                THEN emit_op_code_with_byte(self, "LoadImmN", obj.int % 256, opr_pos)
                ELSE IF obj.int < U16Max
                THEN emit_op_code_with_short(self, "LoadImmNLong", obj.int % 65536, opr_pos)
                ELSE add_literal_to_pool(self, obj, expr.token, TRUE).self
         [] OTHER -> add_literal_to_pool(self, obj, expr.token, TRUE).self

unary_op_code(opr_type) ==
    CASE opr_type = "ArithmeticNeg" -> "Negate"
      [] opr_type = "LogicNeg" -> "LogicNot"
      [] opr_type = "BitwiseNeg" -> "BitwiseNot"

compile_unary_expr(self, expr) ==
    emit_op_code(compile_node(self, expr.operand), unary_op_code(expr.opr_type), expr.pos)

binary_op_code(opr_type) ==
    CASE opr_type = "BitwiseAND" -> "BitwiseAnd"
      [] opr_type = "BitwiseOR" -> "BitwiseOr"
      [] opr_type = "BitwiseShiftLeft" -> "BitwiseShiftLeft"
      [] opr_type = "BitwiseShiftRight" -> "BitwiseShiftRight"
      [] opr_type = "BitwiseXOR" -> "BitwiseXor"
      [] opr_type = "Division" -> "Divide"
      [] opr_type = "Expo" -> "Expo"
      [] opr_type = "LogicEQ" -> "Equals"
      [] opr_type = "LogicGreaterThan" -> "GreaterThan"
      [] opr_type = "LogicGreaterThanEQ" -> "GreaterThanEq"
      [] opr_type = "LogicLessThan" -> "LessThan"
      [] opr_type = "LogicLessThanEQ" -> "LessThanEq"
      [] opr_type = "LogicNotEQ" -> "NotEq"
      [] opr_type = "Minus" -> "Subtract"
      [] opr_type = "Modulus" -> "Modulus"
      [] opr_type = "Multiplication" -> "Multiply"
      [] opr_type = "Nullish" -> "NullishCoalescing"
      [] opr_type = "Addition" -> "Add"
      [] opr_type = "Range" -> "MakeRange"

logic_op_code(opr_type) ==
    CASE opr_type = "LogicAND" -> "JumpIfFalseOrPop"
      [] opr_type = "LogicOR" -> "JumpIfTrueOrPop"

\* The jump is patched before the right operand is compiled.
compile_logic_and_or_expr_patched_early(self, expr) ==
    Bind(emit_jump(compile_node(self, expr.left), logic_op_code(expr.opr_type), expr.opr_token),
         LAMBDA end_jump :
      compile_node(patch_jump(end_jump.self, end_jump.ret, expr.opr_token), expr.right))

compile_logic_and_or_expr(self, expr) ==
    Bind(emit_jump(compile_node(self, expr.left), logic_op_code(expr.opr_type), expr.opr_token),
         LAMBDA end_jump :
      patch_jump(compile_node(end_jump.self, expr.right), end_jump.ret, expr.opr_token))

\* The right operand is compiled ahead of the left one.
compile_binary_expr_right_first(self, expr) ==
    IF expr.opr_type \in {"LogicAND", "LogicOR"}
    THEN compile_logic_and_or_expr(self, expr)
    ELSE LET rhs == compile_node(self, expr.right)
             lhs == compile_node(rhs, expr.left)
         IN emit_op_code(lhs, binary_op_code(expr.opr_type),
                         <<expr.opr_token.line_num, expr.opr_token.column_num>>)

compile_binary_expr(self, expr) ==
    IF expr.opr_type \in {"LogicAND", "LogicOR"}
    THEN compile_logic_and_or_expr(self, expr)
    ELSE LET lhs == compile_node(self, expr.left)
             rhs == compile_node(lhs, expr.right)
         IN emit_op_code(rhs, binary_op_code(expr.opr_type),
                         <<expr.opr_token.line_num, expr.opr_token.column_num>>)

\* An upvalue is read and written with the instructions of a local.
named_variable_upvalue_as_local(self, symbol_loc, token, to_set) ==
    LET pos == <<token.line_num, token.column_num>>
        idx == symbol_loc.pos
        op_name ==
            CASE symbol_loc.variant = "Global" -> IF to_set THEN "SetGlobal" ELSE "GetGlobal"
              [] symbol_loc.variant \in {"Local", "UpValue"} ->
                     IF to_set THEN "SetLocal" ELSE "GetLocal"
              [] OTHER -> ""
    IN IF symbol_loc.variant \notin {"Global", "Local", "UpValue"} THEN self
       ELSE IF idx < 256 THEN emit_op_code_with_byte(self, op_name, idx % 256, pos)
       ELSE emit_op_code_with_short(self, op_name \o "Long", idx % 65536, pos)

named_variable(self, symbol_loc, token, to_set) ==
    LET pos == <<token.line_num, token.column_num>>
        idx == symbol_loc.pos
        op_name ==
            CASE symbol_loc.variant = "Global" -> IF to_set THEN "SetGlobal" ELSE "GetGlobal"
              [] symbol_loc.variant = "Local" -> IF to_set THEN "SetLocal" ELSE "GetLocal"
              [] symbol_loc.variant = "UpValue" -> IF to_set THEN "SetUpVal" ELSE "GetUpVal"
              [] OTHER -> ""
        op_name_long ==
            CASE symbol_loc.variant = "Global" -> IF to_set THEN "SetGlobalLong" ELSE "GetGlobalLong"
              [] symbol_loc.variant = "Local" -> IF to_set THEN "SetLocalLong" ELSE "GetLocalLong"
              [] symbol_loc.variant = "UpValue" -> IF to_set THEN "SetUpValLong" ELSE "GetUpValLong"
              [] OTHER -> ""
    IN IF symbol_loc.variant \notin {"Global", "Local", "UpValue"} THEN self
       ELSE IF idx < 256 THEN emit_op_code_with_byte(self, op_name, idx % 256, pos)
       ELSE emit_op_code_with_short(self, op_name_long, idx % 65536, pos)

compile_identifier_expr(self, expr) ==
    Bind(resolve_symbol(self, expr.token, FALSE), LAMBDA res :
      named_variable(res.self, res.ret, expr.token, FALSE))

reassignment_op_code(opr_type) ==
    CASE opr_type = "Plus" -> "Add"
      [] opr_type = "Minus" -> "Subtract"
      [] opr_type = "Div" -> "Divide"
      [] opr_type = "Mul" -> "Multiply"
      [] opr_type = "Expo" -> "Expo"
      [] opr_type = "Mod" -> "Modulus"
      [] opr_type = "ShiftL" -> "BitwiseShiftLeft"
      [] opr_type = "ShiftR" -> "BitwiseShiftRight"
      [] opr_type = "BitAnd" -> "BitwiseAnd"
      [] opr_type = "Xor" -> "BitwiseXor"
      [] opr_type = "BitOr" -> "BitwiseOr"

\* The compound form does not read the target ahead of the value.
compile_var_reassignment_expr_without_get(self, expr) ==
    LET line_info == <<expr.target.line_num, expr.target.column_num>>
    IN Bind(resolve_symbol(self, expr.target, TRUE), LAMBDA res :
         IF res.ret.variant \notin {"Global", "Local", "UpValue"} THEN res.self
         ELSE named_variable(
                  IF expr.opr_type = "None"
                  THEN compile_node(res.self, expr.value)
                  ELSE emit_op_code(compile_node(res.self, expr.value),
                                    reassignment_op_code(expr.opr_type), line_info),
                  res.ret, expr.target, TRUE))

compile_var_reassignment_expr(self, expr) ==
    LET line_info == <<expr.target.line_num, expr.target.column_num>>
    IN Bind(resolve_symbol(self, expr.target, TRUE), LAMBDA res :
         IF res.ret.variant \notin {"Global", "Local", "UpValue"} THEN res.self
         ELSE named_variable(
                  IF expr.opr_type = "None"
                  THEN compile_node(res.self, expr.value)
                  ELSE emit_op_code(
                           compile_node(named_variable(res.self, res.ret, expr.target, FALSE),
                                        expr.value),
                           reassignment_op_code(expr.opr_type), line_info),
                  res.ret, expr.target, TRUE))

compile_object_getter_expr(self, expr) ==
    LET prop_name == ObjString(expr.getter.lexeme)
        prop_lineno == <<expr.getter.line_num, expr.getter.column_num>>
    IN Bind(add_literal_to_pool(compile_node(self, expr.target), prop_name, expr.getter, FALSE),
            LAMBDA r :
         IF r.ret < 0 THEN r.self
         ELSE IF r.ret < 256 THEN emit_op_code_with_byte(r.self, "GetProp", r.ret % 256, prop_lineno)
         ELSE emit_op_code_with_short(r.self, "GetPropLong", r.ret, prop_lineno))

compile_object_setter_expr(self, expr) ==
    LET prop_name == ObjString(expr.setter.lexeme)
        prop_lineno == <<expr.setter.line_num, expr.setter.column_num>>
    IN Bind(add_literal_to_pool(compile_node(self, expr.target), prop_name, expr.setter, FALSE),
            LAMBDA r :
         IF r.ret < 0 THEN r.self
         ELSE Step(IF expr.opr_type = "None"
                   THEN compile_node(r.self, expr.value)
                   ELSE emit_op_code(
                            compile_node(
                                compile_object_getter_expr(r.self,
                                    [kind |-> "ObjectGet", target |-> expr.target,
                                     getter |-> expr.setter]),
                                expr.value),
                            reassignment_op_code(expr.opr_type), prop_lineno),
                   LAMBDA value :
                IF r.ret < 256
                THEN emit_op_code_with_byte(value, "SetProp", r.ret % 256, prop_lineno)
                ELSE emit_op_code_with_short(value, "SetPropLong", r.ret, prop_lineno)))

\* A literal of 65535 values is refused as well.
compile_array_expr_limit_below(self, expr) ==
    IF Len(expr.values) < U16Max
    THEN LET line_info == <<expr.token.line_num, expr.token.column_num>>
         IN Step(compile_nodes(self, expr.values, 1, Len(expr.values), TRUE), LAMBDA values :
              IF Len(expr.values) < 256
              THEN emit_op_code_with_byte(values, "MakeArray", Len(expr.values) % 256, line_info)
              ELSE emit_op_code_with_short(values, "MakeArrayLong", Len(expr.values) % 65536,
                                           line_info))
    ELSE error_at_token(self, expr.token, "MaxCapacity", "Too many values in the array.")

\* The values are compiled in source order.
compile_array_expr_in_source_order(self, expr) ==
    IF Len(expr.values) <= U16Max
    THEN LET line_info == <<expr.token.line_num, expr.token.column_num>>
         IN Step(compile_nodes(self, expr.values, 1, Len(expr.values), FALSE), LAMBDA values :
              IF Len(expr.values) < 256
              THEN emit_op_code_with_byte(values, "MakeArray", Len(expr.values) % 256, line_info)
              ELSE emit_op_code_with_short(values, "MakeArrayLong", Len(expr.values) % 65536,
                                           line_info))
    ELSE error_at_token(self, expr.token, "MaxCapacity", "Too many values in the array.")

compile_array_expr(self, expr) ==
    IF Len(expr.values) <= U16Max
    THEN LET line_info == <<expr.token.line_num, expr.token.column_num>>
         IN Step(compile_nodes(self, expr.values, 1, Len(expr.values), TRUE), LAMBDA values :
              IF Len(expr.values) < 256
              THEN emit_op_code_with_byte(values, "MakeArray", Len(expr.values) % 256, line_info)
              ELSE emit_op_code_with_short(values, "MakeArrayLong", Len(expr.values) % 65536,
                                           line_info))
    ELSE error_at_token(self, expr.token, "MaxCapacity", "Too many values in the array.")

compile_tuple_expr(self, expr) ==
    IF Len(expr.values) <= U16Max
    THEN LET line_info == <<expr.token.line_num, expr.token.column_num>>
         IN Step(compile_nodes(self, expr.values, 1, Len(expr.values), TRUE), LAMBDA values :
              IF Len(expr.values) < 256
              THEN emit_raw_byte(emit_op_code(values, "MakeTuple", line_info),
                                 Len(expr.values) % 256, line_info)
              ELSE emit_short(emit_op_code(values, "MakeTupleLong", line_info),
                              Len(expr.values) % 65536, line_info))
    ELSE error_at_token(self, expr.token, "MaxCapacity", "Too many values in the tuple.")

compile_array_indexing_expr(self, expr) ==
    LET target == compile_node(self, expr.target)
        index == compile_node(target, expr.index)
    IN emit_op_code(index, "Indexing", expr.pos)

compile_instance_or_func_call_expr(self, expr, instance) ==
    Step(compile_node(self, expr.target), LAMBDA target :
    Step(compile_nodes(target, [i \in 1..Len(expr.args) |-> expr.args[i].value],
                       1, Len(expr.args), FALSE), LAMBDA args :
      IF instance
      THEN emit_op_code_with_byte(args, "MakeInstance", Len(expr.args) % 256, expr.pos)
      ELSE emit_op_code_with_byte(args, "FuncCall", Len(expr.args) % 256, expr.pos)))

(***************************************************************************)
(* Function handlers (src/compiler/functions.rs)                           *)
(***************************************************************************)
RECURSIVE emit_up_values(_, _, _, _, _, _)
emit_up_values(self, up_values, lo, hi, large, func_pos) ==
    IF lo > hi THEN self
    ELSE IF lo = hi
    THEN LET up == up_values[lo]
         IN IF large
            THEN emit_raw_short(emit_raw_byte(self, IF up.is_local THEN 1 ELSE 0, func_pos),
                                up.index % 65536, func_pos)
            ELSE emit_raw_byte(emit_raw_byte(self, IF up.is_local THEN 1 ELSE 0, func_pos),
                               up.index % 256, func_pos)
    ELSE Step(emit_up_values(self, up_values, lo, (lo + hi) \div 2, large, func_pos),
              LAMBDA first :
           emit_up_values(first, up_values, (lo + hi) \div 2 + 1, hi, large, func_pos))

\* The closure form is chosen by the pool index alone.
emit_function_ignores_count(self, function, up_values, token) ==
    LET func == ObjFunction(function)
        func_pos == <<token.line_num, token.column_num>>
        n == Len(up_values)
    IN IF n = 0 THEN add_literal_to_pool(self, func, token, TRUE).self
       ELSE Bind(add_literal_to_pool(self, func, token, FALSE), LAMBDA r :
              IF r.ret < 0 THEN r.self
              ELSE IF r.ret < 256
              THEN emit_up_values(
                       emit_op_code_with_byte(r.self, "MakeClosure", r.ret % 256, func_pos),
                       up_values, 1, n, FALSE, func_pos)
              ELSE emit_up_values(
                       emit_op_code_with_short(r.self, "MakeClosureLong", r.ret, func_pos),
                       up_values, 1, n, FALSE, func_pos))

\* The Large forms write the index of a descriptor in one byte.
emit_function_large_one_byte(self, function, up_values, token) ==
    LET func == ObjFunction(function)
        func_pos == <<token.line_num, token.column_num>>
        n == Len(up_values)
    IN IF n = 0 THEN add_literal_to_pool(self, func, token, TRUE).self
       ELSE Bind(add_literal_to_pool(self, func, token, FALSE), LAMBDA r :
              IF r.ret < 0 THEN r.self
              ELSE IF r.ret < 256
              THEN emit_up_values(
                       emit_op_code_with_byte(r.self, IF n < 256 THEN "MakeClosure"
                                                      ELSE "MakeClosureLarge", r.ret % 256, func_pos),
                       up_values, 1, n, FALSE, func_pos)
              ELSE emit_up_values(
                       emit_op_code_with_short(r.self, IF n < 256 THEN "MakeClosureLong"
                                                       ELSE "MakeClosureLongLarge", r.ret, func_pos),
                       up_values, 1, n, FALSE, func_pos))

emit_function(self, function, up_values, token) ==
    LET func == ObjFunction(function)
        func_pos == <<token.line_num, token.column_num>>
        n == Len(up_values)
    IN IF n = 0 THEN add_literal_to_pool(self, func, token, TRUE).self
       ELSE Bind(add_literal_to_pool(self, func, token, FALSE), LAMBDA r :
              IF r.ret < 0 THEN r.self
              ELSE IF r.ret < 256
              THEN IF n < 256
                   THEN emit_up_values(
                            emit_op_code_with_byte(r.self, "MakeClosure", r.ret % 256, func_pos),
                            up_values, 1, n, FALSE, func_pos)
                   ELSE emit_up_values(
                            emit_op_code_with_byte(r.self, "MakeClosureLarge", r.ret % 256, func_pos),
                            up_values, 1, n, TRUE, func_pos)
              ELSE IF n < 256
                   THEN emit_up_values(
                            emit_op_code_with_short(r.self, "MakeClosureLong", r.ret, func_pos),
                            up_values, 1, n, FALSE, func_pos)
                   ELSE emit_up_values(
                            emit_op_code_with_short(r.self, "MakeClosureLongLarge", r.ret, func_pos),
                            up_values, 1, n, TRUE, func_pos))

RECURSIVE bind_default_values(_, _, _, _)
bind_default_values(self, params, lo, hi) ==
    IF lo > hi THEN self
    ELSE IF lo = hi
    THEN LET param == params[lo]
         IN IF param.default # None THEN compile_node(self, param.default)
            ELSE IF param.is_optional
            THEN emit_op_code(self, "LoadImmNull", <<param.name.line_num, param.name.column_num>>)
            ELSE self
    ELSE Step(bind_default_values(self, params, lo, (lo + hi) \div 2), LAMBDA first :
           bind_default_values(first, params, (lo + hi) \div 2 + 1, hi))

\* The operand is the number of parameters.
bind_default_params_counts_all(self, decl) ==
    emit_op_code_with_byte(bind_default_values(self, decl.params, 1, Len(decl.params)),
                           "BindDefaults", Len(decl.params) % 256,
                           <<decl.name.line_num, decl.name.column_num>>)

bind_default_params(self, decl) ==
    emit_op_code_with_byte(bind_default_values(self, decl.params, 1, Len(decl.params)),
                           "BindDefaults", (decl.arity[2] - decl.arity[1]) % 256,
                           <<decl.name.line_num, decl.name.column_num>>)

\* Declares params[lo..hi] in order and stops at the first failure.
RECURSIVE declare_parameters(_, _, _, _)
declare_parameters(self, params, lo, hi) ==
    IF lo > hi THEN [self |-> self, ret |-> 0]
    ELSE IF lo = hi THEN declare_symbol(self, params[lo].name, "Parameter")
    ELSE LET mid == (lo + hi) \div 2
         IN Bind(declare_parameters(self, params, lo, mid), LAMBDA left :
              IF left.ret < 0 THEN left ELSE declare_parameters(left.self, params, mid + 1, hi))

compile_parameters(self, params) == declare_parameters(self, params, 1, Len(params)).self

\* One CloseUpVal per captured symbol, walking the flags in reverse.
RECURSIVE close_up_values(_, _, _, _, _)
close_up_values(self, symbols, lo, hi, token_pos) ==
    IF lo > hi THEN self
    ELSE IF lo = hi
    THEN IF symbols[Len(symbols) - lo]
         THEN IF lo < 256
              THEN emit_op_code_with_byte(self, "CloseUpVal", lo % 256, token_pos)
              ELSE emit_op_code_with_short(self, "CloseUpValLong", lo % 65536, token_pos)
         ELSE self
    ELSE Step(close_up_values(self, symbols, lo, (lo + hi) \div 2, token_pos), LAMBDA first :
           close_up_values(first, symbols, (lo + hi) \div 2 + 1, hi, token_pos))

\* The captured locals are closed ahead of the return value.
emit_return_closes_first(self, value, token_pos) ==
    Bind(pop_scope(current_func_scope(self).s_table, relative_scope_depth(self), FALSE).ret,
         LAMBDA symbols :
    Step(close_up_values(self, symbols, 0, Len(symbols) - 1, token_pos), LAMBDA closed :
      emit_op_code(IF value # None THEN compile_node(closed, value)
                   ELSE emit_op_code(closed, "LoadImmNull", token_pos),
                   "Return", token_pos)))

emit_return(self, value, token_pos) ==
    Step(IF value # None THEN compile_node(self, value)
         ELSE emit_op_code(self, "LoadImmNull", token_pos), LAMBDA expr :
    Bind(pop_scope(current_func_scope(expr).s_table, relative_scope_depth(expr), FALSE).ret,
         LAMBDA symbols :
      emit_op_code(close_up_values(expr, symbols, 0, Len(symbols) - 1, token_pos),
                   "Return", token_pos)))

compile_return_stmt(self, stmt) ==
    IF self.compiler_type = "Script"
    THEN error_at_token(self, stmt.token, "Syntax", "Cannot return outside of function.")
    ELSE emit_return(self, stmt.value, <<stmt.token.line_num, stmt.token.column_num>>)

FunctionScope(decl, func_pos) ==
    [function |-> [defaults |-> <<>>, min_arity |-> decl.arity[1], max_arity |-> decl.arity[2],
                   chunk |-> [codes |-> <<>>, locations |-> <<>>, constants |-> <<>>],
                   name |-> decl.name.lexeme, up_val_count |-> 0],
     s_table |-> <<Symbol(decl.name.lexeme, "Function", TRUE, 0, TRUE)>>,
     scope_depth |-> 0, loops |-> <<>>, breaks |-> <<>>, up_values |-> <<>>]

\* compile_function_decl up to the parameters: the state in which the
\* body is compiled (the name has been declared in the parent).
function_prologue(self, decl) ==
    LET func_pos == <<decl.name.line_num, decl.name.column_num>>
        pushed == [self EXCEPT !.compiler_type = "Function",
                               !.functions = Append(@, FunctionScope(decl, func_pos))]
        named == add_literal_to_pool(pushed, ObjString(decl.name.lexeme), decl.name, FALSE).self
    IN compile_parameters(named, decl.params)

\* The implicit return is emitted behind every body.
function_body_always_returns(self, decl) ==
    LET func_pos == <<decl.name.line_num, decl.name.column_num>>
    IN Step(compile_nodes(self, decl.body, 1, Len(decl.body), FALSE), LAMBDA nodes :
         emit_return(nodes, None, func_pos))

\* The body loop of compile_function_decl with its implicit return.
function_body(self, decl) ==
    LET func_pos == <<decl.name.line_num, decl.name.column_num>>
    IN IF Len(decl.body) = 0 THEN emit_return(self, None, func_pos)
       ELSE IF decl.body[Len(decl.body)].kind = "ReturnStmt"
       THEN compile_nodes(self, decl.body, 1, Len(decl.body), FALSE)
       ELSE Step(compile_nodes(self, decl.body, 1, Len(decl.body), FALSE), LAMBDA nodes :
              emit_return(nodes, None, func_pos))

\* The function object is loaded while its own frame is still on the stack.
compile_function_decl_loads_before_pop(self, decl) ==
    LET prev_compiler_type == self.compiler_type
    IN Bind(declare_symbol(self, decl.name, "Function"), LAMBDA declared :
         IF declared.ret < 0 THEN declared.self
         ELSE Step(function_prologue(declared.self, decl), LAMBDA prologue :
              Step(function_body(prologue, decl), LAMBDA body :
              Step(emit_function(body, current_func_scope(body).function,
                                 current_func_scope(body).up_values, decl.name), LAMBDA inner :
              Step([inner EXCEPT !.functions = SubSeq(@, 1, Len(@) - 1),
                                 !.compiler_type = prev_compiler_type], LAMBDA loaded :
              Step(IF decl.arity[1] # decl.arity[2] THEN bind_default_params(loaded, decl)
                   ELSE loaded, LAMBDA bound :
                IF is_global_scope(bound)
                THEN [define_as_global(bound, decl.name) EXCEPT
                         !.globals = mark_initialized(@, declared.ret)]
                ELSE [bound EXCEPT !.functions[Len(bound.functions)].s_table =
                         mark_initialized(@, declared.ret)]))))))

\* The compiler stays a function compiler when the declaration is done.
compile_function_decl_keeps_type(self, decl) ==
    LET prev_compiler_type == self.compiler_type
    IN Bind(declare_symbol(self, decl.name, "Function"), LAMBDA declared :
         IF declared.ret < 0 THEN declared.self
         ELSE Step(function_prologue(declared.self, decl), LAMBDA prologue :
              Step(function_body(prologue, decl), LAMBDA body :
              Step(emit_function([body EXCEPT !.functions = SubSeq(@, 1, Len(@) - 1),
                                              !.compiler_type = "Function"],
                                 current_func_scope(body).function,
                                 current_func_scope(body).up_values, decl.name), LAMBDA loaded :
              Step(IF decl.arity[1] # decl.arity[2] THEN bind_default_params(loaded, decl)
                   ELSE loaded, LAMBDA bound :
                IF is_global_scope(bound)
                THEN [define_as_global(bound, decl.name) EXCEPT
                         !.globals = mark_initialized(@, declared.ret)]
                ELSE [bound EXCEPT !.functions[Len(bound.functions)].s_table =
                         mark_initialized(@, declared.ret)])))))

compile_function_decl(self, decl) ==
    LET prev_compiler_type == self.compiler_type
    IN Bind(declare_symbol(self, decl.name, "Function"), LAMBDA declared :
         IF declared.ret < 0 THEN declared.self
         ELSE Step(function_prologue(declared.self, decl), LAMBDA prologue :
              Step(function_body(prologue, decl), LAMBDA body :
              Step(emit_function([body EXCEPT !.functions = SubSeq(@, 1, Len(@) - 1),
                                              !.compiler_type = prev_compiler_type],
                                 current_func_scope(body).function,
                                 current_func_scope(body).up_values, decl.name), LAMBDA loaded :
              Step(IF decl.arity[1] # decl.arity[2] THEN bind_default_params(loaded, decl)
                   ELSE loaded, LAMBDA bound :
                IF is_global_scope(bound)
                THEN [define_as_global(bound, decl.name) EXCEPT
                         !.globals = mark_initialized(@, declared.ret)]
                ELSE [bound EXCEPT !.functions[Len(bound.functions)].s_table =
                         mark_initialized(@, declared.ret)])))))

\* An expression statement inside a function body: the value is discarded.
compile_expression_stmt(self, stmt) ==
    emit_op_code(compile_node(self, stmt.child), "PopStackTop", <<1, 1>>)

compile_node(self, node) ==
    CASE node.kind = "Literal" -> compile_literal_expr(self, node)
      [] node.kind = "Unary" -> compile_unary_expr(self, node)
      [] node.kind = "Binary" -> compile_binary_expr(self, node)
      [] node.kind = "Identifier" -> compile_identifier_expr(self, node)
      [] node.kind = "VarReassignment" -> compile_var_reassignment_expr(self, node)
      [] node.kind = "ObjectGet" -> compile_object_getter_expr(self, node)
      [] node.kind = "ObjectSet" -> compile_object_setter_expr(self, node)
      [] node.kind = "Array" -> compile_array_expr(self, node)
      [] node.kind = "Tuple" -> compile_tuple_expr(self, node)
      [] node.kind = "ArrayIndexing" -> compile_array_indexing_expr(self, node)
      [] node.kind = "FunctionCall" -> compile_instance_or_func_call_expr(self, node, FALSE)
      [] node.kind = "NewInstance" -> compile_instance_or_func_call_expr(self, node, TRUE)
      [] node.kind = "ExpressionStmt" -> compile_expression_stmt(self, node)
      [] node.kind = "ReturnStmt" -> compile_return_stmt(self, node)
      [] node.kind = "FunctionDecl" -> compile_function_decl(self, node)

(***************************************************************************)
(* Statement handlers (src/compiler/statements.rs)                         *)
(*                                                                         *)
(* A statement is handed over as the tokens the parser meets:              *)
(* [keyword, name, has_name, has_init, expr, open, close, semicolon].      *)
(***************************************************************************)
Stmt(keyword, name, has_name, has_init, expr, open, close, semicolon) ==
    [keyword |-> keyword, name |-> Tok(name), has_name |-> has_name, has_init |-> has_init,
     expr |-> expr, open |-> open, close |-> close, semicolon |-> semicolon]

VariableToken(name) == [kind |-> "VariableToken", token |-> Tok(name)]

PrevPos == <<1, 1>>

error_at_current(self, msg) == error_at_token(self, Tok("current"), "Syntax", msg)

\* consume(type, message): the expected token is there, or a diagnostic.
consume(self, present, msg) == IF present THEN self ELSE error_at_current(self, msg)

\* Skips to the next statement boundary and leaves panic mode.
synchronize(self) == [self EXCEPT !.is_in_panic = FALSE]

\* The name is appended to the pool without a look for an equal entry.
add_identifier_to_pool_appends(self, token) ==
    [self |-> [self EXCEPT !.functions[Len(self.functions)].function.chunk.constants =
                   Append(@, ObjString(token.lexeme))],
     ret |-> Len(current_chunk(self).constants)]

add_identifier_to_pool(self, token) == add_constant(self, ObjString(token.lexeme))

parse_variable_name(self, stmt, error_message) ==
    add_identifier_to_pool(consume(self, stmt.has_name, error_message),
                           IF stmt.has_name THEN stmt.name ELSE Tok("var"))

define_variable(self, idx) ==
    emit_short(emit_op_code(self, "OP_DEFINE_GLOBAL_VAR", PrevPos), idx, PrevPos)

stmt_named_variable(self, token) ==
    Bind(add_identifier_to_pool(self, token), LAMBDA arg :
      IF arg.ret >= 0
      THEN emit_short(emit_op_code(arg.self, "OP_GET_GLOBAL_VAR", PrevPos), arg.ret, PrevPos)
      ELSE error_at_current(arg.self, "Could not add variable name to constant pool."))

consume_variable_identifier(self, token) == stmt_named_variable(self, token)

\* expression(): a lone variable name goes to consume_variable_identifier,
\* every other expression to the handler of its node kind.
expression(self, expr) ==
    IF expr.kind = "VariableToken" THEN consume_variable_identifier(self, expr.token)
    ELSE compile_node(self, expr)

print_statement(self, stmt) ==
    emit_op_code(
        consume(
            consume(
                expression(consume(self, stmt.open, "Expected '(' before expression."), stmt.expr),
                stmt.close, "Expected ')' after expression."),
            stmt.semicolon, "Expected ';' after expression."),
        "OP_PRINT", PrevPos)

expression_statement(self, stmt) ==
    emit_op_code(
        consume(expression(self, stmt.expr), stmt.semicolon, "Expected ';' after expression."),
        "OP_POP_STACK", PrevPos)

variable_declaration(self, stmt) ==
    Bind(parse_variable_name(self, stmt, "Expected variable name."), LAMBDA global :
      IF global.ret < 0
      THEN error_at_current(global.self, "Could not complete variable declaration.")
      ELSE define_variable(
               consume(IF stmt.has_init THEN expression(global.self, stmt.expr)
                       ELSE emit_op_code(global.self, "OP_NULL", PrevPos),
                       stmt.semicolon, "Expected ';' after variable declaration."),
               global.ret))

statement(self, stmt) ==
    IF stmt.keyword = "print" THEN print_statement(self, stmt)
    ELSE expression_statement(self, stmt)

\* Panic mode outlives the statement.
declaration_without_synchronize(self, stmt) ==
    IF stmt.keyword = "var" THEN variable_declaration(self, stmt)
    ELSE statement(self, stmt)

declaration(self, stmt) ==
    Step(IF stmt.keyword = "var" THEN variable_declaration(self, stmt)
         ELSE statement(self, stmt), LAMBDA done :
      IF done.is_in_panic THEN synchronize(done) ELSE done)

\* One node of the program's body: the node's handler, and panic mode ends
\* at the statement boundary.
compile_ast_node(self, node) ==
    Step(compile_node(self, node), LAMBDA done :
      IF done.is_in_panic THEN synchronize(done) ELSE done)

(***************************************************************************)
(* The compiler as a state machine                                         *)
(***************************************************************************)
Self ==
    [functions |-> functions, globals |-> globals, compiler_type |-> compiler_type,
     errors |-> errors, is_in_panic |-> is_in_panic]

ScriptScope ==
    [function |-> [defaults |-> <<>>, min_arity |-> 0, max_arity |-> 0,
                   chunk |-> [codes |-> <<>>, locations |-> <<>>, constants |-> <<>>],
                   name |-> "<script>", up_val_count |-> 0],
     s_table |-> <<>>, scope_depth |-> 0, loops |-> <<>>, breaks |-> <<>>, up_values |-> <<>>]

NewCompiler ==
    [functions |-> <<ScriptScope>>, globals |-> <<>>, compiler_type |-> "Script",
     errors |-> <<>>, is_in_panic |-> FALSE]

\* No source is being scanned, and no two objects are being compared.
NoLexer == [pc |-> "idle"]
NoOperands == [pc |-> "idle"]

CompilerInit ==
    /\ functions = NewCompiler.functions
    /\ globals = NewCompiler.globals
    /\ compiler_type = NewCompiler.compiler_type
    /\ errors = NewCompiler.errors
    /\ is_in_panic = NewCompiler.is_in_panic
    /\ prev = NewCompiler
    /\ program = <<>>

Init ==
    /\ CompilerInit
    /\ lexer = NoLexer
    /\ operands = NoOperands

\* The compiler becomes `next`, having been handed `node`.
Becomes(next, node) ==
    /\ functions' = next.functions
    /\ globals' = next.globals
    /\ compiler_type' = next.compiler_type
    /\ errors' = next.errors
    /\ is_in_panic' = next.is_in_panic
    /\ prev' = Self
    /\ program' = Append(program, node)
    /\ UNCHANGED <<lexer, operands>>

L(n) == LiteralExprNode(ObjInt(n))
Id(name) == IdentifierExprNode(name)
ExprStmt(expr) == Stmt("expr", "", FALSE, FALSE, expr, TRUE, TRUE, TRUE)

\* Expression statements, print statements and variable declarations.
Statements ==
    { ExprStmt(BinaryExprNode("Addition", L(1), L(2))),
      ExprStmt(BinaryExprNode("Minus", Id("a"), BinaryExprNode("Multiplication", L(2), Id("b")))),
      ExprStmt(BinaryExprNode("LogicAND", Id("a"), Id("b"))),
      ExprStmt(BinaryExprNode("LogicOR", BinaryExprNode("LogicAND", Id("a"), L(2)),
                              BinaryExprNode("LogicOR", Id("b"), ObjectGetExprNode(Id("a"), "p")))),
      ExprStmt(ArrayExprNode(<<L(1), L(2), L(3)>>)),
      ExprStmt(TupleExprNode(<<Id("a"), L(70000)>>)),
      ExprStmt(ObjectGetExprNode(Id("a"), "p")),
      ExprStmt(ObjectSetExprNode(Id("a"), "p", "None", L(1))),
      ExprStmt(ObjectSetExprNode(Id("a"), "p", "Plus", L(2))),
      ExprStmt(VarReassignmentExprNode("f", "None", L(1))),
      ExprStmt(VarReassignmentExprNode("f", "Mul", Id("a"))),
      ExprStmt(ArrayIndexingExprNode(Id("a"), UnaryExprNode("ArithmeticNeg", L(1)))),
      ExprStmt(FunctionCallExprNode(Id("f"), <<Argument(L(1)), Argument(Id("a"))>>)),
      ExprStmt(NewInstanceExprNode(Id("f"), <<>>)),
      ExprStmt(VariableToken("a")),
      ExprStmt(Id("a")),
      Stmt("expr", "", FALSE, FALSE, L(2), TRUE, TRUE, FALSE),
      Stmt("print", "", FALSE, FALSE, L(2), FALSE, FALSE, TRUE),
      Stmt("print", "", FALSE, FALSE, ObjectGetExprNode(Id("a"), "p"), TRUE, TRUE, TRUE),
      Stmt("var", "p", TRUE, FALSE, None, TRUE, TRUE, TRUE),
      Stmt("var", "a", TRUE, TRUE, BinaryExprNode("Addition", L(1), L(2)), TRUE, TRUE, TRUE) }

BodyStmt(expr) == ExpressionStmtNode(expr)

FunctionDecls ==
    { FunctionDeclNode("f", <<>>, 0, 0, <<>>),
      FunctionDeclNode("f", <<Parameter("n", FALSE, None)>>, 1, 1,
          <<BodyStmt(VarReassignmentExprNode("n", "Plus", L(1))),
            ReturnStmtNode(Id("n"))>>),
      FunctionDeclNode("f", <<Parameter("n", FALSE, None), Parameter("m", TRUE, L(2)),
                              Parameter("o", TRUE, None)>>, 1, 3,
          <<FunctionDeclNode("g", <<>>, 0, 0,
                <<BodyStmt(VarReassignmentExprNode("n", "Plus", Id("m"))),
                  BodyStmt(VarReassignmentExprNode("m", "None", Id("a")))>>)>>),
      FunctionDeclNode("g", <<Parameter("n", FALSE, None)>>, 1, 1,
          <<BodyStmt(ObjectSetExprNode(Id("n"), "p", "None", Id("g")))>>),
      FunctionDeclNode("f", <<Parameter("n", FALSE, None)>>, 1, 1, <<BodyStmt(Id("n"))>>),
      FunctionDeclNode("f", <<Parameter("n", FALSE, None)>>, 1, 1,
          <<FunctionDeclNode("g", <<>>, 0, 0, <<BodyStmt(Id("n"))>>)>>),
      FunctionDeclNode("g", <<>>, 0, 0, <<BodyStmt(Id("a"))>>),
      FunctionDeclNode("f", <<>>, 0, 0,
          <<FunctionDeclNode("g", <<>>, 0, 0, <<ReturnStmtNode(L(1))>>),
            ReturnStmtNode(None)>>),
      FunctionDeclNode("f", <<Parameter("n", FALSE, None)>>, 1, 1,
          <<FunctionDeclNode("g", <<>>, 0, 0, <<BodyStmt(Id("n"))>>),
            FunctionDeclNode("g", <<>>, 0, 0, <<>>)>>) }

ReturnStmts == { ReturnStmtNode(None), ReturnStmtNode(L(1)) }

Declaration(stmts) ==
    /\ Len(program) < MaxNodes
    /\ \E stmt \in stmts : Becomes(declaration(Self, stmt), stmt)

CompileFunctionDecl(decls) ==
    /\ Len(program) < MaxNodes
    /\ \E decl \in decls : Becomes(compile_ast_node(Self, decl), decl)

CompileReturnStmt(stmts) ==
    /\ Len(program) < MaxNodes
    /\ \E stmt \in stmts : Becomes(compile_ast_node(Self, stmt), stmt)

Next ==
    \/ Declaration(Statements)
    \/ CompileFunctionDecl(FunctionDecls)
    \/ CompileReturnStmt(ReturnStmts)

Spec == Init /\ [][Next]_vars

(***************************************************************************)
(* What the last step emitted                                              *)
(***************************************************************************)
Last == program[Len(program)]

Compiled == program # <<>>

LastIsStmt == Compiled /\ "keyword" \in DOMAIN Last

LastIsExprStmt(kind) ==
    /\ LastIsStmt
    /\ Last.keyword = "expr"
    /\ Last.semicolon
    /\ Last.expr.kind = kind

Codes == current_chunk(Self).codes

Constants == current_chunk(Self).constants

\* The bytes the last step appended to the script chunk.
Emitted == SubSeq(Codes, Len(current_chunk(prev).codes) + 1, Len(Codes))

\* The operand that follows the opcode at index i, one byte or a
\* big-endian short.
Operand(codes, i, width) ==
    IF width = 1 THEN codes[i + 1].v ELSE codes[i + 1].v * 256 + codes[i + 2].v

OpBytes(name, operand) == <<Op(name), Raw(operand)>>

OpShort(name, operand) == <<Op(name), Raw(operand \div 256), Raw(operand % 256)>>

(***************************************************************************)
(* Literals                                                                *)
(***************************************************************************)
LiteralValues ==
    {ObjInt(n) : n \in {-1, 0, 1, 2, 255, 256, 65534, 65535, 65536}}
        \cup {ObjFloat(0), ObjFloat(2), ObjBool(TRUE), ObjNull}

LiteralStatements == {ExprStmt(LiteralExprNode(value)) : value \in LiteralValues}

SpecLiteral == Init /\ [][Declaration(LiteralStatements)]_vars

\* The last step loaded the constant obj from the pool.
LoadedFromPool(obj) ==
    \/ /\ Len(Emitted) = 3
       /\ Emitted[1] = Op("LoadConstant")
       /\ Emitted[2].v < Len(Constants)
       /\ Constants[Emitted[2].v + 1] = obj
    \/ /\ Len(Emitted) = 4
       /\ Emitted[1] = Op("LoadConstantLong")
       /\ Operand(Emitted, 1, 2) < Len(Constants)
       /\ Constants[Operand(Emitted, 1, 2) + 1] = obj

\* C1: an integer literal n in [2, 255] is emitted as LoadImmN n (one
\* operand byte), n in [256, 65535] as LoadImmNLong n (two operand
\* bytes), and every other integer except 0 and 1 is loaded from the
\* constant pool.
C1_IntegerLiteralEncoding ==
    LastIsExprStmt("Literal") /\ Last.expr.value.type = "Int" =>
        LET n == Last.expr.value.int
        IN /\ n \in 2..255 => Emitted = OpBytes("LoadImmN", n) \o <<Op("OP_POP_STACK")>>
           /\ n \in 256..65535 => Emitted = OpShort("LoadImmNLong", n) \o <<Op("OP_POP_STACK")>>
           /\ n < 0 \/ n > 65535 => LoadedFromPool(ObjInt(n))

(***************************************************************************)
(* The evaluation stack of the virtual machine                             *)
(***************************************************************************)
PushOps ==
    {"LoadImmTrue", "LoadImmFalse", "LoadImm0I", "LoadImm1I", "LoadImm0F", "LoadImm1F",
     "LoadImmNull", "LoadImmN", "LoadImmNLong", "LoadConstant", "LoadConstantLong",
     "GetGlobal", "GetGlobalLong", "GetLocal", "GetLocalLong", "GetUpVal", "GetUpValLong",
     "OP_GET_GLOBAL_VAR", "OP_NULL",
     "MakeClosure", "MakeClosureLong", "MakeClosureLarge", "MakeClosureLongLarge"}

KeepOps ==
    {"Negate", "LogicNot", "BitwiseNot", "SetGlobal", "SetGlobalLong", "SetLocal",
     "SetLocalLong", "SetUpVal", "SetUpValLong", "GetProp", "GetPropLong",
     "CloseUpVal", "CloseUpValLong"}

BinaryOps ==
    {"BitwiseAnd", "BitwiseOr", "BitwiseShiftLeft", "BitwiseShiftRight", "BitwiseXor",
     "Divide", "Expo", "Equals", "GreaterThan", "GreaterThanEq", "LessThan", "LessThanEq",
     "NotEq", "Subtract", "Modulus", "Multiply", "NullishCoalescing", "Add", "MakeRange"}

PopOps ==
    BinaryOps \cup {"Indexing", "SetProp", "SetPropLong", "JumpIfFalseOrPop", "JumpIfTrueOrPop",
                    "OP_POP_STACK", "PopStackTop", "OP_PRINT", "OP_DEFINE_GLOBAL_VAR",
                    "DefineGlobal", "DefineGlobalLong", "Return"}

\* The change of the stack height made by the instruction at index i
\* (a raw operand byte changes nothing; a short-circuit jump is followed
\* on its fall-through path, where it pops).
StackEffect(codes, i) ==
    LET op == codes[i].op
    IN CASE codes[i].tag = "raw" -> 0
         [] op \in PushOps -> 1
         [] op \in KeepOps -> 0
         [] op \in PopOps -> -1
         [] op \in {"MakeArray", "MakeTuple"} -> 1 - Operand(codes, i, 1)
         [] op \in {"MakeArrayLong", "MakeTupleLong"} -> 1 - Operand(codes, i, 2)
         [] op \in {"FuncCall", "MakeInstance", "BindDefaults"} -> 0 - Operand(codes, i, 1)

RECURSIVE NetStackEffect(_, _, _)
NetStackEffect(codes, lo, hi) ==
    IF lo > hi THEN 0
    ELSE IF lo = hi THEN StackEffect(codes, lo)
    ELSE LET mid == (lo + hi) \div 2
         IN NetStackEffect(codes, lo, mid) + NetStackEffect(codes, mid + 1, hi)

\* Indexes of the short-circuit jumps in codes.
OrPopJumps(codes) ==
    {i \in 1..Len(codes) : codes[i].tag = "op" /\ codes[i].op \in {"JumpIfFalseOrPop", "JumpIfTrueOrPop"}}

\* codes pushes exactly one value on every path: along the fall-through
\* path, and the code a taken jump skips pushes exactly the one value that
\* the jump leaves on the stack.
PushesOneValue(codes) ==
    /\ NetStackEffect(codes, 1, Len(codes)) = 1
    /\ \A i \in OrPopJumps(codes) :
           NetStackEffect(codes, i + 3, i + 2 + Operand(codes, i, 2)) = 1

\* C2: the code every expression handler emits nets exactly one pushed
\* value, for every expression (here: the expression of an expression
\* statement, ahead of the statement's pop).
C2_ExpressionPushesOneValue ==
    (LastIsStmt /\ Last.keyword = "expr" /\ Last.semicolon) =>
        /\ Len(Emitted) >= 1
        /\ PushesOneValue(SubSeq(Emitted, 1, Len(Emitted) - 1))

(***************************************************************************)
(* Programs that reach the two-byte operand forms                          *)
(***************************************************************************)
ParamName(i) == "p" \o ToString(i)

Params(n) == [i \in 1..n |-> Parameter(ParamName(i), FALSE, None)]

Repeat(node, n) == [i \in 1..n |-> node]

DefaultParams(n, default) == [i \in 1..n |-> Parameter(ParamName(i), TRUE, default)]

WideStatements ==
    { ExprStmt(ArrayExprNode(Repeat(L(70000), U8Limit))),
      ExprStmt(ArrayExprNode(<<L(1), L(2), L(3)>>)),
      ExprStmt(TupleExprNode(<<Id("a"), L(70000)>>)),
      ExprStmt(ArrayExprNode(Repeat(L(2), U8Limit - 1))),
      ExprStmt(TupleExprNode(Repeat(L(2), U8Limit))),
      ExprStmt(TupleExprNode(Repeat(L(2), U8Limit - 1))),
      ExprStmt(FunctionCallExprNode(Id("f"), Repeat(Argument(L(2)), U8Limit - 1))),
      ExprStmt(FunctionCallExprNode(Id("f"), Repeat(Argument(L(2)), U8Limit))),
      ExprStmt(ObjectGetExprNode(Id("a"), "p")),
      ExprStmt(ObjectSetExprNode(Id("a"), "p", "None", L(1))),
      ExprStmt(VarReassignmentExprNode("g", "Plus", L(1))),
      ExprStmt(VariableToken("a")),
      Stmt("var", "p", TRUE, FALSE, None, TRUE, TRUE, TRUE) }

\* The arity of a declaration is a pair of bytes: a parameter list of more
\* than 255 names carries the largest arity.
WideFunctionDecls ==
    { FunctionDeclNode("g", DefaultParams(U8Max, L(70000)), 0, U8Max, <<>>),
      FunctionDeclNode("f", Params(U8Limit), U8Max, U8Max,
          <<BodyStmt(VarReassignmentExprNode(ParamName(U8Limit), "Plus", Id(ParamName(U8Limit - 1)))),
            ReturnStmtNode(Id(ParamName(1)))>>),
      FunctionDeclNode("f", Params(U8Limit + 1), U8Max, U8Max,
          <<FunctionDeclNode("h", <<>>, 0, 0,
                <<BodyStmt(ArrayExprNode([i \in 1..(U8Limit + 1) |-> Id(ParamName(i))])),
                  BodyStmt(VarReassignmentExprNode(ParamName(1), "Plus", Id(ParamName(2))))>>)>>) }

\* The wide functions f, and functions whose nested functions sit at a pool
\* index above 255.
ClosureFunctionDecls ==
    {decl \in WideFunctionDecls : decl.name.lexeme = "f"} \cup
    { FunctionDeclNode("f", Params(1), 1, 1,
          <<FunctionDeclNode("g", <<>>, 0, 0,
                <<FunctionDeclNode("k", <<>>, 0, 0, <<BodyStmt(Id(ParamName(1)))>>)>>),
            BodyStmt(ArrayExprNode(Repeat(L(70000), U8Limit))),
            FunctionDeclNode("h", <<>>, 0, 0, <<BodyStmt(Id(ParamName(1)))>>)>>),
      FunctionDeclNode("f", Params(U8Limit), U8Max, U8Max,
          <<BodyStmt(ArrayExprNode(Repeat(L(70000), U8Limit))),
            FunctionDeclNode("h", <<>>, 0, 0,
                <<BodyStmt(ArrayExprNode([i \in 1..U8Limit |-> Id(ParamName(i))]))>>)>>) }

SpecWide ==
    Init /\ [][Declaration(WideStatements) \/ CompileFunctionDecl(WideFunctionDecls)]_vars

ClosureStatements ==
    { ExprStmt(ObjectGetExprNode(Id("a"), "p")),
      ExprStmt(ObjectSetExprNode(Id("a"), "p", "None", L(1))),
      ExprStmt(VarReassignmentExprNode("g", "Plus", L(1))),
      ExprStmt(VariableToken("a")),
      ExprStmt(Id("a")),
      ExprStmt(FunctionCallExprNode(Id("f"), <<Argument(L(1))>>)),
      Stmt("var", "p", TRUE, FALSE, None, TRUE, TRUE, TRUE) }

\* Function declarations of every closure form among short statements.
SpecClosure ==
    Init /\ [][Declaration(ClosureStatements)
                 \/ CompileFunctionDecl(ClosureFunctionDecls)]_vars

(***************************************************************************)
(* Binary and short-circuit expressions                                    *)
(***************************************************************************)
\* The bytes appended to the current chunk between two compiler states.
CodeOf(before, after) ==
    SubSeq(current_chunk(after).codes, Len(current_chunk(before).codes) + 1,
           Len(current_chunk(after).codes))

IsLogic(expr) == expr.kind = "Binary" /\ expr.opr_type \in {"LogicAND", "LogicOR"}

OnePlusTwo == BinaryExprNode("Addition", L(1), L(2))

\* C3: a non-short-circuit binary expression is emitted as code(left),
\* code(right) and then exactly one operator opcode; the expression
\* statement `1 + 2` is LoadImm1I, LoadImmN 2, Add, pop.
C3_BinaryOperandsLeftToRight ==
    (LastIsExprStmt("Binary") /\ ~IsLogic(Last.expr)) =>
        LET left == compile_node(prev, Last.expr.left)
            right == compile_node(left, Last.expr.right)
        IN /\ Emitted = CodeOf(prev, left) \o CodeOf(left, right)
                            \o <<Op(binary_op_code(Last.expr.opr_type)), Op("OP_POP_STACK")>>
           /\ Len(CodeOf(prev, left)) > 0 /\ Len(CodeOf(left, right)) > 0
           /\ Last.expr = OnePlusTwo =>
                  Emitted = <<Op("LoadImm1I"), Op("LoadImmN"), Raw(2), Op("Add"), Op("OP_POP_STACK")>>

\* `a - 2 * b` has been compiled as the first statement.
C3_Witness ==
    /\ LastIsExprStmt("Binary")
    /\ Last.expr.opr_type = "Minus"
    /\ Emitted = <<Op("GetGlobal"), Raw(0), Op("LoadImmN"), Raw(2), Op("GetGlobal"), Raw(1),
                   Op("Multiply"), Op("Subtract"), Op("OP_POP_STACK")>>

\* The jump of the logic expression expr, compiled from the state
\* `before` into the chunk `codes`: the jump opcode follows code(left), its
\* payload is target - site - 2, which is the length of code(right), and
\* the same holds of the logic expressions nested in expr.
RECURSIVE LogicJumpsPatched(_, _, _)
LogicJumpsPatched(before, expr, codes) ==
    IF ~IsLogic(expr) THEN TRUE
    ELSE LET left == compile_node(before, expr.left)
             jump == emit_jump(left, logic_op_code(expr.opr_type), expr.opr_token).self
             right == compile_node(jump, expr.right)
             site == Len(current_chunk(left).codes) + 1
             target == Len(current_chunk(right).codes)
             payload == Operand(codes, site, 2)
         IN /\ codes[site] = Op(IF expr.opr_type = "LogicAND" THEN "JumpIfFalseOrPop"
                                ELSE "JumpIfTrueOrPop")
            /\ codes[site + 1].tag = "raw" /\ codes[site + 2].tag = "raw"
            /\ payload = target - site - 2
            /\ payload = Len(CodeOf(jump, right))
            /\ payload >= 0
            /\ SubSeq(codes, site + 3, site + 2 + payload) = CodeOf(jump, compile_node(jump, expr.right))
            /\ LogicJumpsPatched(before, expr.left, codes)
            /\ LogicJumpsPatched(jump, expr.right, codes)

\* C4: `a and b` / `a or b` is emitted as code(a), JumpIfFalseOrPop /
\* JumpIfTrueOrPop with a two-byte payload, code(b); the payload is
\* target - site - 2 with the target right after code(b), hence the length
\* of code(b) and never negative, also for nested logic expressions.
C4_LogicJumpPatched ==
    (LastIsExprStmt("Binary") /\ IsLogic(Last.expr)) =>
        /\ LogicJumpsPatched(prev, Last.expr, Codes)
        /\ Emitted[Len(Emitted)] = Op("OP_POP_STACK")
        /\ Len(Codes) = Len(current_chunk(compile_node(prev, Last.expr)).codes) + 1

\* A nested logic expression has been compiled: its outer jump skips the
\* whole of the nested right operand.
C4_Witness ==
    /\ LastIsExprStmt("Binary")
    /\ IsLogic(Last.expr) /\ IsLogic(Last.expr.left) /\ IsLogic(Last.expr.right)
    /\ \E i \in OrPopJumps(Emitted) : Operand(Emitted, i, 2) > 3
    /\ Len(errors) = 0

(***************************************************************************)
(* Variable references                                                     *)
(***************************************************************************)
\* The function object called name that was added last to a pool.
FunctionConstant(constants, name) ==
    constants[Max({i \in 1..Len(constants) :
                      constants[i].type = "Function" /\ constants[i].func.name = name})].func

\* The state in which the body of decl is compiled, decl being compiled
\* from the state `before`.
BodyState(before, decl) ==
    function_prologue(declare_symbol(before, decl.name, "Function").self, decl)

NoProbe == [found |-> FALSE, state |-> prev, codes |-> <<>>, expr |-> None]

\* The first expression the last step compiled into a fresh position: the
\* expression of an expression statement, or the first expression statement
\* of a function body or of a function nested in it; with the state it was
\* compiled from and the chunk it was compiled into.
Probe ==
    IF ~Compiled THEN NoProbe
    ELSE IF LastIsStmt
    THEN IF Last.keyword = "expr" /\ Last.semicolon /\ Last.expr.kind # "VariableToken"
         THEN [found |-> TRUE, state |-> prev, codes |-> Emitted, expr |-> Last.expr]
         ELSE NoProbe
    ELSE IF Last.kind = "FunctionDecl" /\ Len(Last.body) > 0
    THEN LET first == Last.body[1]
             outer == FunctionConstant(Constants, Last.name.lexeme)
         IN IF first.kind = "ExpressionStmt"
            THEN [found |-> TRUE, state |-> BodyState(prev, Last), codes |-> outer.chunk.codes,
                  expr |-> first.child]
            ELSE IF first.kind = "FunctionDecl" /\ Len(first.body) > 0
                        /\ first.body[1].kind = "ExpressionStmt"
            THEN [found |-> TRUE, state |-> BodyState(BodyState(prev, Last), first),
                  codes |-> FunctionConstant(outer.chunk.constants, first.name.lexeme).chunk.codes,
                  expr |-> first.body[1].child]
            ELSE NoProbe
    ELSE NoProbe

\* The code of the probed expression: the bytes ahead of the pop that ends
\* its statement.
ProbeCode ==
    Bind(Probe.codes, LAMBDA codes :
        SubSeq(codes, 1, Min({i \in 1..Len(codes) :
                                 codes[i].tag = "op" /\ codes[i].op \in {"PopStackTop", "OP_POP_STACK"}}) - 1))

VariableOps(variant) ==
    CASE variant = "Global" -> {"GetGlobal", "GetGlobalLong", "SetGlobal", "SetGlobalLong"}
      [] variant = "Local" -> {"GetLocal", "GetLocalLong", "SetLocal", "SetLocalLong"}
      [] variant = "UpValue" -> {"GetUpVal", "GetUpValLong", "SetUpVal", "SetUpValLong"}

Variants == {"Global", "Local", "UpValue"}

\* Indexes of the opcodes in codes.
Opcodes(codes) == {i \in 1..Len(codes) : codes[i].tag = "op"}

\* C5: a variable reference whose lookup succeeds is emitted as exactly one
\* instruction, and that instruction belongs to the family (Get/SetGlobal,
\* Get/SetLocal, Get/SetUpVal) of the location variant that resolve_symbol
\* returns for the name.
C5_ReferenceMatchesLocation ==
    (Probe.found /\ Probe.expr.kind = "Identifier") =>
        LET location == resolve_symbol(Probe.state, Probe.expr.token, FALSE).ret
        IN location.variant \in Variants =>
               /\ Opcodes(ProbeCode) = {1}
               /\ ProbeCode[1].op \in VariableOps(location.variant)
               /\ \A other \in Variants \ {location.variant} :
                      ProbeCode[1].op \notin VariableOps(other)

\* A name of the enclosing function has been referenced in a nested
\* function: the lookup yields an upvalue and GetUpVal was emitted.
C5_Witness ==
    /\ Probe.found
    /\ Probe.expr.kind = "Identifier"
    /\ resolve_symbol(Probe.state, Probe.expr.token, FALSE).ret.variant = "UpValue"
    /\ ProbeCode = <<Op("GetUpVal"), Raw(0)>>

(***************************************************************************)
(* Operand encoding                                                        *)
(***************************************************************************)
\* Instructions that name a pool entry (a global or a property name).
NameOps ==
    {"GetGlobal", "SetGlobal", "GetProp", "SetProp", "DefineGlobal",
     "OP_GET_GLOBAL_VAR", "OP_DEFINE_GLOBAL_VAR"}

\* The one-byte forms of the instructions that carry a pool index, a slot
\* or a count; the old statement handlers know one form of the global
\* instructions only.
ShortOperandOps ==
    NameOps \cup {"GetLocal", "SetLocal", "GetUpVal", "SetUpVal", "MakeArray", "MakeTuple"}

NameLongOps ==
    {"GetGlobalLong", "SetGlobalLong", "GetPropLong", "SetPropLong", "DefineGlobalLong"}

LongOperandOps ==
    NameLongOps \cup {"GetLocalLong", "SetLocalLong", "GetUpValLong", "SetUpValLong",
                      "MakeArrayLong", "MakeTupleLong"}

IsRaw(codes, i) == i <= Len(codes) /\ codes[i].tag = "raw"

\* The number (up to 3) of operand bytes behind the opcode at index i.
OperandBytes(codes, i) ==
    IF ~IsRaw(codes, i + 1) THEN 0
    ELSE IF ~IsRaw(codes, i + 2) THEN 1
    ELSE IF ~IsRaw(codes, i + 3) THEN 2
    ELSE 3

\* The instruction at index i of the chunk obeys the short/long rule, and
\* a name operand decodes to a string of the chunk's pool.
WellEncoded(chunk, i) ==
    LET codes == chunk.codes
        op == codes[i].op
    IN /\ op \in ShortOperandOps =>
              /\ OperandBytes(codes, i) = 1
              /\ Operand(codes, i, 1) \in 0..(U8Limit - 1)
       /\ op \in LongOperandOps =>
              /\ OperandBytes(codes, i) = 2
              /\ codes[i + 1].v \in 0..255 /\ codes[i + 2].v \in 0..255
              /\ Operand(codes, i, 2) \in U8Limit..U16Max
       /\ op \in NameOps /\ OperandBytes(codes, i) >= 1 =>
              /\ Operand(codes, i, 1) < Len(chunk.constants)
              /\ chunk.constants[Operand(codes, i, 1) + 1].type = "String"
       /\ op \in NameLongOps /\ OperandBytes(codes, i) >= 2 =>
              /\ Operand(codes, i, 2) < Len(chunk.constants)
              /\ chunk.constants[Operand(codes, i, 2) + 1].type = "String"

\* Every instruction of the chunk, and of the functions in its pool, that
\* satisfies `checked` is well encoded.
RECURSIVE ChunkWellEncoded(_, _)
ChunkWellEncoded(chunk, checked) ==
    /\ \A i \in Opcodes(chunk.codes) : chunk.codes[i].op \in checked => WellEncoded(chunk, i)
    /\ \A k \in 1..Len(chunk.constants) :
           chunk.constants[k].type = "Function" =>
               ChunkWellEncoded(chunk.constants[k].func.chunk, checked)

\* The operand of the property instruction the last step emitted names the
\* property.
PropertyOperandNamesProperty ==
    (LastIsExprStmt("ObjectGet") \/ LastIsExprStmt("ObjectSet")) /\ Len(errors) = 0 =>
        LET at == Max({i \in Opcodes(Emitted) :
                          Emitted[i].op \in {"GetProp", "SetProp", "GetPropLong", "SetPropLong"}})
            name == IF Last.expr.kind = "ObjectGet" THEN Last.expr.getter.lexeme
                    ELSE Last.expr.setter.lexeme
            width == IF Emitted[at].op \in {"GetProp", "SetProp"} THEN 1 ELSE 2
        IN Constants[Operand(Emitted, at, width) + 1] = ObjString(name)

\* C6: every instruction that carries a pool index, a slot or a count is
\* the short opcode with one operand byte when the operand is below 256,
\* and the long opcode with two big-endian bytes otherwise; the operand
\* decodes back to the index it was emitted for.
C6_OperandEncoding ==
    /\ ChunkWellEncoded(current_chunk(Self), ShortOperandOps \cup LongOperandOps)
    /\ PropertyOperandNamesProperty

\* The same, of the instructions of the expression handlers alone.
ExpressionOperandEncoding ==
    /\ ChunkWellEncoded(current_chunk(Self),
                        (ShortOperandOps \cup LongOperandOps)
                            \ {"OP_GET_GLOBAL_VAR", "OP_DEFINE_GLOBAL_VAR"})
    /\ PropertyOperandNamesProperty

(***************************************************************************)
(* Assignments                                                             *)
(***************************************************************************)
VariableOpName(prefix, variant) ==
    prefix \o (CASE variant = "Global" -> "Global"
                 [] variant = "Local" -> "Local"
                 [] variant = "UpValue" -> "UpVal")

\* The Get (prefix "Get") or Set instruction of a symbol location.
VariableInstruction(prefix, location) ==
    IF location.pos < U8Limit
    THEN OpBytes(VariableOpName(prefix, location.variant), location.pos)
    ELSE OpShort(VariableOpName(prefix, location.variant) \o "Long", location.pos)

\* C7: an assignment resolves its target once: plain `=` is code(rhs) and
\* then Set; compound `op=` is Get, code(rhs), the binary opcode of op and
\* then Set, where Get and Set are of the variant and the index of the one
\* location resolved.
C7_AssignmentResolvedOnce ==
    (Probe.found /\ Probe.expr.kind = "VarReassignment") =>
        LET expr == Probe.expr
            res == resolve_symbol(Probe.state, expr.target, TRUE)
            get == named_variable(res.self, res.ret, expr.target, FALSE)
        IN res.ret.variant \in Variants =>
               IF expr.opr_type = "None"
               THEN ProbeCode = CodeOf(res.self, compile_node(res.self, expr.value))
                                    \o VariableInstruction("Set", res.ret)
               ELSE ProbeCode = VariableInstruction("Get", res.ret)
                                    \o CodeOf(get, compile_node(get, expr.value))
                                    \o <<Op(reassignment_op_code(expr.opr_type))>>
                                    \o VariableInstruction("Set", res.ret)

\* `n += m` has been compiled in a function nested in fn f(n, m): the
\* upvalue n is read and written through the same slot.
C7_Witness ==
    /\ Probe.found
    /\ Probe.expr.kind = "VarReassignment"
    /\ Probe.expr.opr_type = "Plus"
    /\ ProbeCode = <<Op("GetUpVal"), Raw(0), Op("GetUpVal"), Raw(1), Op("Add"),
                     Op("SetUpVal"), Raw(0)>>

\* The GetProp / SetProp instruction (prefix "Get" / "Set") of pool index idx.
PropertyInstruction(prefix, idx) ==
    IF idx < U8Limit THEN OpBytes(prefix \o "Prop", idx) ELSE OpShort(prefix \o "PropLong", idx)

IsCompoundPropertyAssignment ==
    LastIsExprStmt("ObjectSet") /\ Last.expr.opr_type # "None" /\ Len(errors) = 0

\* The code of obj.p op= rhs behind the code of the receiver, the receiver
\* having been compiled from the state `before` into the state `receiver`:
\* the property read, code(rhs), the operator opcode and SetProp.
ReadModifyWrite(before, receiver, expr) ==
    LET name == add_literal_to_pool(receiver, ObjString(expr.setter.lexeme), expr.setter, FALSE)
        read == PropertyInstruction("Get", name.ret)
    IN read \o CodeOf(name.self, compile_node(name.self, expr.value))
            \o <<Op(reassignment_op_code(expr.opr_type))>>
            \o PropertyInstruction("Set", name.ret)

\* C8: a compound property assignment obj.p op= rhs compiles the receiver
\* exactly once: the emitted bytes are code(obj), the property read,
\* code(rhs), the operator opcode and SetProp[Long].
C8_ReceiverCompiledOnce ==
    IsCompoundPropertyAssignment =>
        LET receiver == compile_node(prev, Last.expr.target)
        IN Emitted = CodeOf(prev, receiver)
                         \o ReadModifyWrite(prev, receiver, Last.expr)
                         \o <<Op("OP_POP_STACK")>>

\* What the handler emits: the code of the receiver twice, once for the
\* assignment and once more for the read.
ReceiverCompiledTwice ==
    IsCompoundPropertyAssignment =>
        LET receiver == compile_node(prev, Last.expr.target)
            again == compile_node(receiver, Last.expr.target)
        IN Emitted = CodeOf(prev, receiver) \o CodeOf(receiver, again)
                         \o ReadModifyWrite(prev, again, Last.expr)
                         \o <<Op("OP_POP_STACK")>>

(***************************************************************************)
(* The constant pool                                                       *)
(***************************************************************************)
\* Pool indexes of the string `name`.
NameEntries(constants, name) ==
    {k \in 1..Len(constants) : constants[k].type = "String" /\ constants[k].str = name}

\* The operand of the name instruction at index i, in its own width.
NameOperand(codes, i) == Operand(codes, i, OperandBytes(codes, i))

\* Indexes of the instructions of the chunk that name a pool entry.
NameInstructions(codes) ==
    {i \in Opcodes(codes) : codes[i].op \in NameOps \cup NameLongOps}

\* A pool holds each name once, every name operand of the chunk is the
\* index of a name, and the same holds of the functions in the pool.
RECURSIVE NamesDeduplicated(_)
NamesDeduplicated(chunk) ==
    /\ \A k \in 1..Len(chunk.constants) :
           chunk.constants[k].type = "String" =>
               NameEntries(chunk.constants, chunk.constants[k].str) = {k}
    /\ \A i \in NameInstructions(chunk.codes) :
           /\ NameOperand(chunk.codes, i) < Len(chunk.constants)
           /\ chunk.constants[NameOperand(chunk.codes, i) + 1].type = "String"
    /\ \A k \in 1..Len(chunk.constants) :
           chunk.constants[k].type = "Function" => NamesDeduplicated(chunk.constants[k].func.chunk)

\* The name the last statement uses, when it is a property access, a
\* property assignment or a lone global reference; "" otherwise.
UsedName ==
    IF ~(LastIsStmt /\ Last.keyword = "expr" /\ Last.semicolon /\ Len(errors) = 0) THEN ""
    ELSE CASE Last.expr.kind = "ObjectGet" -> Last.expr.getter.lexeme
           [] Last.expr.kind = "ObjectSet" -> Last.expr.setter.lexeme
           [] Last.expr.kind \in {"Identifier", "VariableToken"} -> Last.expr.token.lexeme
           [] OTHER -> ""

\* C9: however often property accesses, property assignments and global
\* references use a name within one function, the function's pool holds
\* exactly one entry for the name, and every operand emitted for the name
\* is the index of that entry.
C9_NamesDeduplicated ==
    /\ NamesDeduplicated(current_chunk(Self))
    /\ UsedName # "" =>
           LET at == Max(NameInstructions(Emitted))
           IN NameEntries(Constants, UsedName) = {NameOperand(Emitted, at) + 1}

\* `a.p` and `a.p = 1` have been compiled, in either order: the pool holds
\* "a" and "p" once, and the two property instructions carry the same index.
C9_Witness ==
    /\ Len(program) = 2
    /\ LastIsExprStmt("ObjectGet") \/ LastIsExprStmt("ObjectSet")
    /\ program[1] # program[2]
    /\ "expr" \in DOMAIN program[1] /\ program[1].expr.kind \in {"ObjectGet", "ObjectSet"}
    /\ Constants = <<ObjString("a"), ObjString("p")>>
    /\ {NameOperand(Codes, i) : i \in {j \in Opcodes(Codes) : Codes[j].op \in {"GetProp", "SetProp"}}} = {1}
    /\ Cardinality({j \in Opcodes(Codes) : Codes[j].op \in {"GetProp", "SetProp"}}) >= 2

(***************************************************************************)
(* Array and tuple literals                                                *)
(***************************************************************************)
\* The instruction at index i loads the value of the element `node`, a
\* literal or a variable reference.
ElementLoads(node, codes, i) ==
    CASE node.kind = "Literal" /\ node.value.type = "Int" /\ node.value.int = 1 ->
             codes[i].op = "LoadImm1I" /\ OperandBytes(codes, i) = 0
      [] node.kind = "Literal" /\ node.value.type = "Int" /\ node.value.int \in 2..255 ->
             codes[i].op = "LoadImmN" /\ NameOperand(codes, i) = node.value.int
      [] node.kind = "Literal" /\ node.value.type = "Int" /\ node.value.int > U16Max ->
             /\ codes[i].op \in {"LoadConstant", "LoadConstantLong"}
             /\ LastIsStmt => Constants[NameOperand(codes, i) + 1] = node.value
      [] node.kind = "Identifier" ->
             /\ codes[i].op \in {"GetGlobal", "GetGlobalLong", "GetLocal", "GetLocalLong",
                                 "GetUpVal", "GetUpValLong"}
             /\ LastIsStmt => Constants[NameOperand(codes, i) + 1].str = node.token.lexeme
      [] OTHER -> FALSE

\* The count instruction of a literal of k elements.
MakeInstruction(kind, k) ==
    IF k < 256
    THEN OpBytes(IF kind = "Array" THEN "MakeArray" ELSE "MakeTuple", k)
    ELSE OpShort(IF kind = "Array" THEN "MakeArrayLong" ELSE "MakeTupleLong", k)

\* codes is one load per element of values, the last element first, and
\* then the count instruction.
ReverseThenCount(kind, values, codes) ==
    Bind(Opcodes(codes), LAMBDA ops :
        /\ Cardinality(ops) = Len(values) + 1
        /\ \A i \in ops \ {Max(ops)} :
               ElementLoads(values[Len(values) - Cardinality({j \in ops : j < i})], codes, i)
        /\ SubSeq(codes, Max(ops), Len(codes)) = MakeInstruction(kind, Len(values)))

\* C10: an array or tuple literal of k <= 65535 elements emits the code of
\* its elements in reverse source order, then MakeArray / MakeTuple with a
\* one-byte count when k < 256, or MakeArrayLong / MakeTupleLong with a
\* two-byte count otherwise, the count being k; `[1, 2, 3]` compiles to
\* LoadImmN 3, LoadImmN 2, LoadImm1I, MakeArray 3.
C10_ElementsReversedThenCount ==
    /\ (Probe.found /\ Probe.expr.kind \in {"Array", "Tuple"} /\ Len(errors) = 0) =>
           Bind(Probe.expr, LAMBDA expr : Bind(ProbeCode, LAMBDA code :
               ReverseThenCount(expr.kind, expr.values, code)))
    /\ (LastIsExprStmt("Array") /\ Len(Last.expr.values) = 3) =>
           Emitted = <<Op("LoadImmN"), Raw(3), Op("LoadImmN"), Raw(2), Op("LoadImm1I"),
                       Op("MakeArray"), Raw(3), Op("OP_POP_STACK")>>

\* `[1, 2, 3]` and then a tuple of 256 elements have been compiled.
C10_Witness ==
    /\ Len(program) = 2
    /\ Len(errors) = 0
    /\ LastIsExprStmt("Tuple")
    /\ Len(Last.expr.values) = U8Limit
    /\ SubSeq(Codes, 1, 7) = <<Op("LoadImmN"), Raw(3), Op("LoadImmN"), Raw(2), Op("LoadImm1I"),
                               Op("MakeArray"), Raw(3)>>
    /\ SubSeq(Emitted, Len(Emitted) - 3, Len(Emitted)) =
           <<Op("MakeTupleLong"), Raw(1), Raw(0), Op("OP_POP_STACK")>>

(***************************************************************************)
(* The capacity of array and tuple literals                                *)
(***************************************************************************)
\* Literals of 65535 and of 65536 values.
HugeStatements ==
    { ExprStmt(ArrayExprNode(Repeat(L(1), U16Max))),
      ExprStmt(ArrayExprNode(Repeat(L(70000), U16Limit))),
      ExprStmt(TupleExprNode(Repeat(L(1), U16Max))),
      ExprStmt(TupleExprNode(Repeat(L(70000), U16Limit))) }

\* The first statement of the program is one of stmts.
FirstDeclaration(stmts) ==
    /\ program = <<>>
    /\ \E stmt \in stmts : Becomes(declaration(Self, stmt), stmt)

\* A huge literal opens the program, literal statements follow.
SpecCapacity ==
    Init /\ [][FirstDeclaration(HugeStatements) \/ Declaration(LiteralStatements)]_vars

LastIsLiteralOf(kind, k) == LastIsExprStmt(kind) /\ Len(Last.expr.values) = k

\* C11: an array or tuple literal of 65536 or more values raises one
\* MaxCapacity diagnostic, compiles none of its values (the pool is as it
\* was) and emits no byte (only the statement's pop follows), while a
\* literal of exactly 65535 values raises no diagnostic and is emitted with
\* the long count instruction.
C11_LiteralCapacity ==
    /\ \A kind \in {"Array", "Tuple"} :
           (LastIsExprStmt(kind) /\ Len(Last.expr.values) >= U16Limit) =>
               /\ Len(errors) = Len(prev.errors) + 1
               /\ errors[Len(errors)].kind = "MaxCapacity"
               /\ Emitted = <<Op("OP_POP_STACK")>>
               /\ Constants = current_chunk(prev).constants
    /\ \A kind \in {"Array", "Tuple"} :
           LastIsLiteralOf(kind, U16Max) =>
               /\ errors = prev.errors
               /\ Len(Emitted) = U16Max + 4
               /\ SubSeq(Emitted, U16Max + 1, U16Max + 4) =
                      MakeInstruction(kind, U16Max) \o <<Op("OP_POP_STACK")>>

\* An array literal of 65536 values has been refused.
C11_Witness ==
    /\ LastIsLiteralOf("Array", U16Limit)
    /\ errors = <<[kind |-> "MaxCapacity", lexeme |-> "[", msg |-> "Too many values in the array."]>>
    /\ Codes = <<Op("OP_POP_STACK")>>
    /\ Constants = <<>>

(***************************************************************************)
(* Calls and new instances                                                 *)
(***************************************************************************)
LastIsCall == LastIsExprStmt("FunctionCall") \/ LastIsExprStmt("NewInstance")

\* codes is the load of the callee, one load per argument in source order,
\* and then the call instruction with one operand byte of value count.
CalleeArgumentsThenCall(expr, codes, count) ==
    Bind(Opcodes(codes), LAMBDA ops :
        /\ Cardinality(ops) = Len(expr.args) + 2
        /\ ElementLoads(expr.target, codes, Min(ops))
        /\ \A i \in ops \ {Min(ops), Max(ops)} :
               ElementLoads(expr.args[Cardinality({j \in ops : j < i})].value, codes, i)
        /\ SubSeq(codes, Max(ops), Len(codes)) =
               OpBytes(IF expr.kind = "NewInstance" THEN "MakeInstance" ELSE "FuncCall", count))

\* C12: a call or a new-instance expression is emitted as the code of the
\* callee, the code of each argument from left to right, and FuncCall or
\* MakeInstance with a one-byte operand equal to the number of arguments;
\* a call of more than 255 arguments is not emitted with a wrapped count.
C12_CallArgumentCount ==
    (LastIsCall /\ Len(errors) = 0) =>
        /\ Len(Last.expr.args) < U8Limit
        /\ Bind(ProbeCode, LAMBDA code : CalleeArgumentsThenCall(Last.expr, code, Len(Last.expr.args)))

\* What the handler emits: the operand is the number of arguments modulo
\* 256, and no diagnostic is raised for any number of arguments.
CallCountWrapped ==
    LastIsCall =>
        /\ errors = prev.errors
        /\ Bind(ProbeCode, LAMBDA code :
               CalleeArgumentsThenCall(Last.expr, code, Len(Last.expr.args) % U8Limit))

(***************************************************************************)
(* Loading a function in its parent                                        *)
(***************************************************************************)
ClosureOps == {"MakeClosure", "MakeClosureLarge", "MakeClosureLong", "MakeClosureLongLarge"}

\* The instruction that loads the function at pool index idx, the function
\* having n upvalues.
FunctionLoadOp(idx, n) ==
    IF n = 0 THEN (IF idx < 256 THEN "LoadConstant" ELSE "LoadConstantLong")
    ELSE IF idx < 256 THEN (IF n < 256 THEN "MakeClosure" ELSE "MakeClosureLarge")
    ELSE (IF n < 256 THEN "MakeClosureLong" ELSE "MakeClosureLongLarge")

\* The pool index named by the load or closure instruction at index i.
PoolOperand(codes, i) ==
    Operand(codes, i, IF codes[i].op \in {"LoadConstant", "MakeClosure", "MakeClosureLarge"}
                      THEN 1 ELSE 2)

\* Indexes of the instructions of codes that load pool entry idx.
PoolLoads(codes, idx) ==
    {i \in Opcodes(codes) :
        /\ codes[i].op \in ClosureOps \cup {"LoadConstant", "LoadConstantLong"}
        /\ PoolOperand(codes, i) = idx}

\* Every function in the pool of chunk is loaded by one instruction, of the
\* form its pool index and its number of upvalues select; the same holds
\* inside the function.
RECURSIVE FunctionsLoadedByForm(_)
FunctionsLoadedByForm(chunk) ==
    \A k \in 1..Len(chunk.constants) :
        chunk.constants[k].type = "Function" =>
            /\ Cardinality(PoolLoads(chunk.codes, k - 1)) = 1
            /\ \A i \in PoolLoads(chunk.codes, k - 1) :
                   chunk.codes[i].op =
                       FunctionLoadOp(k - 1, chunk.constants[k].func.up_val_count)
            /\ FunctionsLoadedByForm(chunk.constants[k].func.chunk)

\* C13: emit_function loads a function without upvalues with
\* LoadConstant[Long] and no MakeClosure, and a function with upvalues
\* with no LoadConstant and exactly one of MakeClosure (index < 256, fewer
\* than 256 upvalues), MakeClosureLarge (index < 256, 256 or more),
\* MakeClosureLong (index >= 256, fewer than 256) and MakeClosureLongLarge
\* (both at or above 256).
C13_FunctionLoadForm == FunctionsLoadedByForm(current_chunk(Self))

\* The opcodes of the closure instructions in the body of the function the
\* last step declared.
LastClosureOps ==
    IF Compiled /\ ~LastIsStmt /\ Last.kind = "FunctionDecl" /\ Len(errors) = 0
    THEN Bind(FunctionConstant(Constants, Last.name.lexeme).chunk.codes, LAMBDA codes :
           {codes[i].op : i \in {j \in Opcodes(codes) : codes[j].op \in ClosureOps}})
    ELSE {}

\* A function of 256 upvalues at pool index 257 has been declared after one
\* of 257 upvalues at a pool index below 256.
C13_Witness ==
    /\ Len(program) = 2
    /\ LastClosureOps = {"MakeClosureLongLarge"}
    /\ \E i \in Opcodes(Codes) : Codes[i].op = "LoadConstant" /\ Constants[Codes[i + 1].v + 1].type = "Function"
    /\ \E k \in 1..Len(Constants) :
           /\ Constants[k].type = "Function"
           /\ \E i \in Opcodes(Constants[k].func.chunk.codes) :
                  Constants[k].func.chunk.codes[i].op = "MakeClosureLarge"

(***************************************************************************)
(* Upvalue descriptors                                                     *)
(***************************************************************************)
\* The bytes of the descriptor pairs of ups: is_local in one byte, the
\* index in width - 1 bytes, big-endian.
Descriptors(ups, width) ==
    [j \in 1..(Len(ups) * width) |->
        LET up == ups[(j - 1) \div width + 1]
            at == (j - 1) % width
        IN IF at = 0 THEN Raw(IF up.is_local THEN 1 ELSE 0)
           ELSE IF width = 2 THEN Raw(up.index)
           ELSE IF at = 1 THEN Raw(up.index \div 256)
           ELSE Raw(up.index % 256)]

\* The raw bytes between the opcode at index i and the next opcode.
RawRun(codes, i) ==
    SubSeq(codes, i + 1, Min({j \in (i + 1)..(Len(codes) + 1) : ~IsRaw(codes, j)}) - 1)

\* In codes, the closure instruction of pool entry idx is followed by its
\* operand and the descriptor pairs of ups, and by nothing else.
ClosureDescribed(codes, idx, ups) ==
    \A i \in PoolLoads(codes, idx) :
        /\ codes[i].op \in ClosureOps
        /\ RawRun(codes, i) =
               (IF idx < 256 THEN <<Raw(idx)>> ELSE <<Raw(idx \div 256), Raw(idx % 256)>>)
                   \o Descriptors(ups, IF codes[i].op \in {"MakeClosureLarge", "MakeClosureLongLarge"}
                                       THEN 3 ELSE 2)

\* Pool index of the function `name`.
FunctionIndex(constants, name) ==
    Max({k \in 1..Len(constants) :
            constants[k].type = "Function" /\ constants[k].func.name = name}) - 1

\* decl is compiled from the state `before` into the chunk parent: when the
\* body of decl leaves upvalues, parent describes them behind the closure
\* instruction of decl, and the same holds of the functions declared in
\* the body of decl.
RECURSIVE ClosuresDescribed(_, _, _)
ClosuresDescribed(before, decl, parent) ==
    Step(BodyState(before, decl), LAMBDA prologue :
    Bind(current_func_scope(function_body(prologue, decl)).up_values, LAMBDA ups :
    Bind(FunctionIndex(parent.constants, decl.name.lexeme), LAMBDA idx :
        /\ parent.constants[idx + 1].func.up_val_count = Len(ups)
        /\ ups # <<>> => ClosureDescribed(parent.codes, idx, ups)
        /\ \A k \in 1..Len(decl.body) :
               decl.body[k].kind = "FunctionDecl" =>
                   ClosuresDescribed(compile_nodes(prologue, decl.body, 1, k - 1, FALSE),
                                     decl.body[k], parent.constants[idx + 1].func.chunk))))

LastIsFunctionDecl ==
    Compiled /\ ~LastIsStmt /\ Last.kind = "FunctionDecl" /\ errors = prev.errors

\* C14: for every function with upvalues, the MakeClosure* instruction and
\* its operand are followed by exactly as many descriptor pairs as the
\* function has upvalues, in the order of the upvalue list, each pair being
\* is_local in one byte (1 for a local, 0 otherwise) and the index in one
\* byte (non-Large forms) or two bytes (Large forms), and by no other byte.
C14_ClosureDescriptors ==
    LastIsFunctionDecl => ClosuresDescribed(prev, Last, current_chunk(Self))

\* fn f(p1) { fn g() { fn k() { p1; } } [...]; fn h() { p1; } } has been
\* declared after a function whose nested function has 257 upvalues: f
\* describes the upvalue of g and of h as the local 1, g describes the
\* upvalue of k as its own upvalue 0, and the Large form carries 257
\* descriptors of three bytes.
C14_Witness ==
    /\ Len(program) = 2
    /\ LastIsFunctionDecl
    /\ Len(Last.body) = 3
    /\ Bind(FunctionConstant(Constants, "f").chunk, LAMBDA f :
           /\ SubSeq(f.codes, 1, 4) = <<Op("MakeClosure"), Raw(1), Raw(1), Raw(1)>>
           /\ SubSeq(FunctionConstant(f.constants, "g").chunk.codes, 1, 4) =
                  <<Op("MakeClosure"), Raw(1), Raw(0), Raw(0)>>
           /\ \E i \in Opcodes(f.codes) :
                  /\ f.codes[i].op = "MakeClosureLong"
                  /\ SubSeq(RawRun(f.codes, i), 3, 4) = <<Raw(1), Raw(1)>>)
    /\ \E k \in 1..Len(Constants) :
           /\ Constants[k].type = "Function"
           /\ \E i \in Opcodes(Constants[k].func.chunk.codes) :
                  /\ Constants[k].func.chunk.codes[i].op = "MakeClosureLarge"
                  /\ Len(RawRun(Constants[k].func.chunk.codes, i)) = 1 + 3 * (U8Limit + 1)

(***************************************************************************)
(* The end of a function chunk                                             *)
(***************************************************************************)
\* The chunk, and the chunk of every function in its pool, ends with Return.
RECURSIVE FunctionsEndWithReturn(_, _)
FunctionsEndWithReturn(chunk, is_function) ==
    /\ is_function => chunk.codes # <<>> /\ chunk.codes[Len(chunk.codes)] = Op("Return")
    /\ \A k \in 1..Len(chunk.constants) :
           chunk.constants[k].type = "Function" =>
               FunctionsEndWithReturn(chunk.constants[k].func.chunk, TRUE)

\* tail is an implicit return: LoadImmNull, the closing of captured locals,
\* Return.
ImplicitReturn(tail) ==
    /\ Len(tail) >= 2
    /\ tail[1] = Op("LoadImmNull")
    /\ tail[Len(tail)] = Op("Return")
    /\ \A i \in Opcodes(tail) \ {1, Len(tail)} : tail[i].op \in {"CloseUpVal", "CloseUpValLong"}

\* decl is compiled from the state `before` into the chunk parent: the
\* chunk of decl is the code of its body nodes followed by an implicit
\* return, or by nothing when the last node is a return statement; the
\* same holds of the functions declared in the body.
RECURSIVE BodiesEnd(_, _, _)
BodiesEnd(before, decl, parent) ==
    Step(BodyState(before, decl), LAMBDA prologue :
    Bind(current_chunk(compile_nodes(prologue, decl.body, 1, Len(decl.body), FALSE)).codes,
         LAMBDA body :
    Bind(parent.constants[FunctionIndex(parent.constants, decl.name.lexeme) + 1].func.chunk,
         LAMBDA chunk :
        /\ SubSeq(chunk.codes, 1, Len(body)) = body
        /\ Bind(SubSeq(chunk.codes, Len(body) + 1, Len(chunk.codes)), LAMBDA tail :
               IF decl.body = <<>> THEN tail = <<Op("LoadImmNull"), Op("Return")>>
               ELSE IF decl.body[Len(decl.body)].kind = "ReturnStmt"
               THEN tail = <<>> /\ body[Len(body)] = Op("Return")
               ELSE ImplicitReturn(tail))
        /\ \A k \in 1..Len(decl.body) :
               decl.body[k].kind = "FunctionDecl" =>
                   BodiesEnd(compile_nodes(prologue, decl.body, 1, k - 1, FALSE),
                             decl.body[k], chunk))))

\* C15: every compiled function chunk ends with a Return instruction: an
\* empty body is LoadImmNull, Return; a body whose last node is not a
\* return statement is followed by the implicit LoadImmNull ... Return; a
\* body whose last node is a return statement is followed by nothing.
C15_FunctionEndsWithReturn ==
    /\ FunctionsEndWithReturn(current_chunk(Self), FALSE)
    /\ LastIsFunctionDecl => BodiesEnd(prev, Last, current_chunk(Self))

\* fn f(n) { n += 1; return n; } has been declared: its chunk ends with the
\* return of the statement and holds no other Return.
C15_Witness ==
    /\ LastIsFunctionDecl
    /\ Len(Last.body) = 2
    /\ Last.body[2].kind = "ReturnStmt"
    /\ Bind(FunctionConstant(Constants, "f").chunk.codes, LAMBDA codes :
           /\ SubSeq(codes, Len(codes) - 3, Len(codes)) =
                  <<Op("PopStackTop"), Op("GetLocal"), Raw(1), Op("Return")>>
           /\ Cardinality({i \in Opcodes(codes) : codes[i].op = "Return"}) = 1)

(***************************************************************************)
(* Return statements                                                       *)
(***************************************************************************)
LastIsReturn == Compiled /\ ~LastIsStmt /\ Last.kind = "ReturnStmt"

\* The number of return statements in the bodies of decl and of the
\* functions declared in it.
RECURSIVE ReturnStatements(_)
RECURSIVE SumOver(_, _, _)
SumOver(body, lo, hi) ==
    IF lo > hi THEN 0
    ELSE (IF body[lo].kind = "ReturnStmt" THEN 1
          ELSE IF body[lo].kind = "FunctionDecl" THEN ReturnStatements(body[lo])
          ELSE 0) + SumOver(body, lo + 1, hi)

ReturnStatements(decl) == SumOver(decl.body, 1, Len(decl.body))

ReturnOutsideFunction ==
    [kind |-> "Syntax", lexeme |-> "return", msg |-> "Cannot return outside of function."]

\* C16: a return statement compiled in the top-level script raises a
\* diagnostic and emits no byte, also when a function declaration has been
\* compiled before it; a return statement in a function body, at any
\* nesting depth, raises none.
C16_ReturnOnlyInFunction ==
    /\ compiler_type = "Script"
    /\ LastIsReturn =>
           /\ errors = Append(prev.errors, ReturnOutsideFunction)
           /\ current_chunk(Self) = current_chunk(prev)
    /\ (Compiled /\ ~LastIsStmt /\ Last.kind = "FunctionDecl" /\ ReturnStatements(Last) > 0) =>
           /\ errors = prev.errors
           /\ Codes # current_chunk(prev).codes

\* A function whose body and whose nested function return has been
\* declared, and the return statement that follows it at the top level has
\* been refused.
C16_Witness ==
    /\ Len(program) = 2
    /\ LastIsReturn
    /\ "kind" \in DOMAIN program[1]
    /\ program[1].kind = "FunctionDecl"
    /\ ReturnStatements(program[1]) = 2
    /\ errors = <<ReturnOutsideFunction>>
    /\ Codes = current_chunk(prev).codes
    /\ Codes # <<>>

(***************************************************************************)
(* Closing captured locals at a return                                     *)
(***************************************************************************)
\* One CloseUpVal[Long] for each captured symbol of s_table among those at
\* the distances lo..hi from the end of the table, nearest first.
RECURSIVE Closes(_, _, _)
Closes(s_table, lo, hi) ==
    IF lo > hi THEN <<>>
    ELSE IF lo = hi
    THEN IF ~s_table[Len(s_table) - lo].is_captured THEN <<>>
         ELSE IF lo < 256 THEN OpBytes("CloseUpVal", lo)
         ELSE OpShort("CloseUpValLong", lo)
    ELSE Closes(s_table, lo, (lo + hi) \div 2) \o Closes(s_table, (lo + hi) \div 2 + 1, hi)

\* The bytes of a return compiled from the state `at`: the code of the
\* value, or LoadImmNull; the closing of the captured locals, the last
\* declared first; Return.
ReturnCode(at, value) ==
    Bind(IF value = None THEN <<Op("LoadImmNull")>> ELSE CodeOf(at, compile_node(at, value)),
         LAMBDA code :
    Bind(current_func_scope(at).s_table, LAMBDA s_table :
        code \o Closes(s_table, 0, Len(s_table) - 1) \o <<Op("Return")>>))

\* decl is compiled from the state `before` into the chunk parent: the
\* chunk of decl ends with the bytes of its last return, the statement's
\* or the implicit one; the same holds of the functions declared in the
\* body.
RECURSIVE ReturnsClose(_, _, _)
ReturnsClose(before, decl, parent) ==
    Step(BodyState(before, decl), LAMBDA prologue :
    Bind(Len(decl.body) > 0 /\ decl.body[Len(decl.body)].kind = "ReturnStmt", LAMBDA explicit :
    Step(compile_nodes(prologue, decl.body, 1, Len(decl.body) - (IF explicit THEN 1 ELSE 0), FALSE),
         LAMBDA at :
    Bind(parent.constants[FunctionIndex(parent.constants, decl.name.lexeme) + 1].func.chunk,
         LAMBDA chunk :
        /\ SubSeq(chunk.codes, Len(current_chunk(at).codes) + 1, Len(chunk.codes)) =
               ReturnCode(at, IF explicit THEN decl.body[Len(decl.body)].value ELSE None)
        /\ \A k \in 1..Len(decl.body) :
               decl.body[k].kind = "FunctionDecl" =>
                   ReturnsClose(compile_nodes(prologue, decl.body, 1, k - 1, FALSE),
                                decl.body[k], chunk)))))

\* C17: emit_return emits the code of the return expression (LoadImmNull
\* when there is none), then one CloseUpVal[Long] for every captured local
\* of the function, in reverse declaration order, and none for a local that
\* is not captured, then Return; a function whose local is captured by a
\* nested function closes it at its end.
C17_ReturnClosesCaptured ==
    LastIsFunctionDecl => ReturnsClose(prev, Last, current_chunk(Self))

\* A function of 257 parameters, all captured by its nested function, has
\* been declared: its chunk ends with LoadImmNull, CloseUpVal 1 .. 255,
\* CloseUpValLong 256 .. 257, Return.
C17_Witness ==
    /\ LastIsFunctionDecl
    /\ Len(Last.params) = U8Limit + 1
    /\ Bind(FunctionConstant(Constants, "f").chunk.codes, LAMBDA codes :
           /\ Len(codes) >= 2 * U8Limit + 6
           /\ SubSeq(codes, Len(codes) - 8, Len(codes)) =
                  OpBytes("CloseUpVal", 255) \o OpShort("CloseUpValLong", 256)
                      \o OpShort("CloseUpValLong", 257) \o <<Op("Return")>>
           /\ SubSeq(codes, Len(codes) - 2 * U8Limit - 5, Len(codes) - 2 * U8Limit - 2) =
                  <<Op("LoadImmNull"), Op("CloseUpVal"), Raw(1), Op("CloseUpVal")>>)

(***************************************************************************)
(* Default values of parameters                                            *)
(***************************************************************************)
\* The parameter pushes a value when the function is composed.
HasDefault(param) == param.default # None \/ param.is_optional

\* The parameter of decl that pushes the r-th default value.
DefaultAt(decl, r) ==
    decl.params[Min({p \in 1..Len(decl.params) :
                        Cardinality({q \in 1..p : HasDefault(decl.params[q])}) = r})]

\* The instruction at index i loads the default value of param.
DefaultLoads(param, codes, i) ==
    IF param.default # None THEN ElementLoads(param.default, codes, i)
    ELSE codes[i] = Op("LoadImmNull")

\* codes loads the function, then one default value per optional parameter
\* in declaration order and BindDefaults with their number, and defines
\* the global; without optional parameters it loads and defines only.
LoadedThenDefaultsBound(decl, codes) ==
    Bind(Opcodes(codes), LAMBDA ops :
    Bind(Cardinality({p \in 1..Len(decl.params) : HasDefault(decl.params[p])}), LAMBDA pushed :
        /\ codes[Min(ops)].op \in {"LoadConstant", "LoadConstantLong"}
        /\ codes[Max(ops)].op \in {"DefineGlobal", "DefineGlobalLong"}
        /\ IF decl.arity[1] = decl.arity[2]
           THEN Cardinality(ops) = 2
           ELSE /\ Cardinality(ops) = pushed + 3
                /\ pushed = decl.arity[2] - decl.arity[1]
                /\ \A i \in ops :
                       Bind(Cardinality({j \in ops : j < i}), LAMBDA r :
                           /\ r \in 1..pushed => DefaultLoads(DefaultAt(decl, r), codes, i)
                           /\ r = pushed + 1 =>
                                  /\ codes[i].op = "BindDefaults"
                                  /\ OperandBytes(codes, i) = 1
                                  /\ NameOperand(codes, i) = decl.arity[2] - decl.arity[1])))

\* C18: for a function with min_arity < max_arity, after the function is
\* loaded in the parent the default values are compiled in declaration
\* order (LoadImmNull for an optional parameter without a default, nothing
\* for a required parameter), then one BindDefaults follows whose operand
\* is max_arity - min_arity, the number of values pushed; with
\* min_arity = max_arity no default is compiled and no BindDefaults is
\* emitted.
C18_DefaultsBound ==
    LastIsFunctionDecl => Bind(Emitted, LAMBDA codes : LoadedThenDefaultsBound(Last, codes))

\* fn f(n, m = 2, o?) has been declared.
C18_Witness ==
    /\ LastIsFunctionDecl
    /\ Last.arity = <<1, 3>>
    /\ SubSeq(Emitted, Len(Emitted) - 7, Len(Emitted) - 2) =
           <<Raw(Len(prev.functions[1].function.chunk.constants)),
             Op("LoadImmN"), Raw(2), Op("LoadImmNull"), Op("BindDefaults"), Raw(2)>>

(***************************************************************************)
(* Panic mode                                                              *)
(***************************************************************************)
\* The number of expected tokens the statement lacks.
MissingTokens(stmt) ==
    (IF stmt.keyword = "var" /\ ~stmt.has_name THEN 1 ELSE 0)
        + (IF stmt.keyword = "print" /\ ~stmt.open THEN 1 ELSE 0)
        + (IF stmt.keyword = "print" /\ ~stmt.close THEN 1 ELSE 0)
        + (IF ~stmt.semicolon THEN 1 ELSE 0)

\* The diagnostics of kind Syntax the last step raised.
NewSyntaxErrors ==
    {i \in (Len(prev.errors) + 1)..Len(errors) : errors[i].kind = "Syntax"}

\* C19: the panic flag a diagnostic sets while a statement is compiled is
\* cleared at the statement boundary: after declaration() returns,
\* is_in_panic is false, every statement starts with the flag clear, and a
\* statement that lacks a token gets its diagnostic whatever the statements
\* before it raised (one diagnostic, the rest of the same statement being
\* suppressed).
C19_PanicClearedAtBoundary ==
    /\ is_in_panic = FALSE
    /\ prev.is_in_panic = FALSE
    /\ LastIsStmt =>
           Cardinality(NewSyntaxErrors) = (IF MissingTokens(Last) > 0 THEN 1 ELSE 0)

\* A print statement without its two parentheses, then an expression
\* statement without its semicolon: one diagnostic each.
C19_Witness ==
    /\ Len(program) = 2
    /\ "keyword" \in DOMAIN program[1]
    /\ MissingTokens(program[1]) = 2
    /\ LastIsStmt
    /\ MissingTokens(Last) = 1
    /\ Len(prev.errors) = 1
    /\ Len(errors) = 2
    /\ errors[1].msg = "Expected '(' before expression."
    /\ errors[2].msg = "Expected ';' after expression."
    /\ is_in_panic = FALSE

(***************************************************************************)
(* Bytes and positions                                                     *)
(***************************************************************************)
\* The chunk, and the chunk of every function in its pool, records one
\* position per byte.
RECURSIVE PositionsMatch(_)
PositionsMatch(chunk) ==
    /\ Len(chunk.codes) = Len(chunk.locations)
    /\ \A k \in 1..Len(chunk.constants) :
           chunk.constants[k].type = "Function" => PositionsMatch(chunk.constants[k].func.chunk)

\* C20: for every emitted chunk, after any sequence of emit operations
\* (opcode, opcode with byte, opcode with short, raw byte, raw short, jump
\* placeholder), the number of bytes equals the number of recorded
\* (line, column) positions.
C20_OnePositionPerByte == PositionsMatch(current_chunk(Self))

\* A statement with a patched jump, then a function whose nested function
\* is loaded as a closure: each chunk holds bytes, and as many positions.
C20_Witness ==
    /\ Len(program) = 2
    /\ \E i \in Opcodes(Codes) : Codes[i].op \in {"JumpIfFalseOrPop", "JumpIfTrueOrPop"}
    /\ LastIsFunctionDecl
    /\ LastClosureOps = {"MakeClosure"}
    /\ Len(current_chunk(Self).locations) = Len(Codes)
    /\ Bind(FunctionConstant(Constants, Last.name.lexeme).chunk, LAMBDA chunk :
           Len(chunk.codes) > 3 /\ Len(chunk.locations) = Len(chunk.codes))


(***************************************************************************)
(* Upvalue descriptor indexes                                              *)
(***************************************************************************)
\* Functions that capture a slot above 255 through fewer than 256 upvalues:
\* the local 256 of the enclosing function, the same local two functions
\* up, and the upvalue 256 of the enclosing function (an array literal
\* resolves its last element first, so p1 is the last upvalue of g); and a
\* function that captures the local 1.
SlotFunctionDecls ==
    { FunctionDeclNode("f", Params(U8Limit), U8Max, U8Max,
          <<FunctionDeclNode("h", <<>>, 0, 0, <<BodyStmt(Id(ParamName(U8Limit)))>>)>>),
      FunctionDeclNode("f", Params(U8Limit), U8Max, U8Max,
          <<FunctionDeclNode("g", <<>>, 0, 0,
                <<FunctionDeclNode("k", <<>>, 0, 0, <<BodyStmt(Id(ParamName(U8Limit)))>>)>>)>>),
      FunctionDeclNode("f", Params(U8Limit + 1), U8Max, U8Max,
          <<FunctionDeclNode("g", <<>>, 0, 0,
                <<BodyStmt(ArrayExprNode([i \in 1..(U8Limit + 1) |-> Id(ParamName(i))])),
                  FunctionDeclNode("k", <<>>, 0, 0, <<BodyStmt(Id(ParamName(1)))>>)>>)>>),
      FunctionDeclNode("f", Params(1), 1, 1,
          <<FunctionDeclNode("h", <<>>, 0, 0, <<BodyStmt(Id(ParamName(1)))>>)>>) }

\* Closures over high slots among short statements.
SpecSlot ==
    Init /\ [][Declaration(ClosureStatements) \/ CompileFunctionDecl(SlotFunctionDecls)]_vars

\* Index in codes of the is_local byte of descriptor j of the closure
\* instruction at index i.
DescriptorAt(codes, i, j) ==
    i + (IF codes[i].op \in {"MakeClosureLong", "MakeClosureLongLarge"} THEN 2 ELSE 1)
      + (j - 1) * (IF codes[i].op \in {"MakeClosureLarge", "MakeClosureLongLarge"} THEN 3 ELSE 2)
      + 1

\* The index the VM reads from descriptor j of the closure instruction at i.
DescriptorIndex(codes, i, j) ==
    LET at == DescriptorAt(codes, i, j)
    IN IF codes[i].op \in {"MakeClosureLarge", "MakeClosureLongLarge"}
       THEN codes[at + 1].v * 256 + codes[at + 2].v
       ELSE codes[at + 1].v

\* In codes, descriptor j of the closure instruction of pool entry idx reads
\* back as ups[j].
DescriptorsReadBack(codes, idx, ups) ==
    \A i \in PoolLoads(codes, idx) :
        codes[i].op \in ClosureOps =>
            \A j \in 1..Len(ups) :
                ups[j].index < U16Limit =>
                    /\ codes[DescriptorAt(codes, i, j)].v = (IF ups[j].is_local THEN 1 ELSE 0)
                    /\ DescriptorIndex(codes, i, j) = ups[j].index

\* decl is compiled from the state `before` into the chunk parent: the
\* descriptors parent writes for decl read back as the upvalues the body of
\* decl leaves, and the same holds of the functions declared in the body.
RECURSIVE IndexesEncoded(_, _, _)
IndexesEncoded(before, decl, parent) ==
    Step(BodyState(before, decl), LAMBDA prologue :
    Bind(current_func_scope(function_body(prologue, decl)).up_values, LAMBDA ups :
    Bind(FunctionIndex(parent.constants, decl.name.lexeme), LAMBDA idx :
        /\ DescriptorsReadBack(parent.codes, idx, ups)
        /\ \A k \in 1..Len(decl.body) :
               decl.body[k].kind = "FunctionDecl" =>
                   IndexesEncoded(compile_nodes(prologue, decl.body, 1, k - 1, FALSE),
                                  decl.body[k], parent.constants[idx + 1].func.chunk))))

\* C21: every upvalue descriptor written behind a MakeClosure* instruction
\* encodes the index of the descriptor (a local slot of the enclosing
\* function when is_local, else one of its upvalue slots) for every index
\* below 65536, also a slot of 256 or more captured by a function with
\* fewer than 256 upvalues: the index is never cut to its low byte.
C21_DescriptorIndexExact ==
    LastIsFunctionDecl => IndexesEncoded(prev, Last, current_chunk(Self))

\* The same with the index of a non-Large form read modulo 256: what the
\* descriptors hold.
DescriptorsLowByte(codes, idx, ups) ==
    \A i \in PoolLoads(codes, idx) :
        codes[i].op \in ClosureOps =>
            \A j \in 1..Len(ups) :
                DescriptorIndex(codes, i, j) =
                    (IF codes[i].op \in {"MakeClosureLarge", "MakeClosureLongLarge"}
                     THEN ups[j].index % U16Limit ELSE ups[j].index % U8Limit)

RECURSIVE IndexesCut(_, _, _)
IndexesCut(before, decl, parent) ==
    Step(BodyState(before, decl), LAMBDA prologue :
    Bind(current_func_scope(function_body(prologue, decl)).up_values, LAMBDA ups :
    Bind(FunctionIndex(parent.constants, decl.name.lexeme), LAMBDA idx :
        /\ DescriptorsLowByte(parent.codes, idx, ups)
        /\ \A k \in 1..Len(decl.body) :
               decl.body[k].kind = "FunctionDecl" =>
                   IndexesCut(compile_nodes(prologue, decl.body, 1, k - 1, FALSE),
                              decl.body[k], parent.constants[idx + 1].func.chunk))))

DescriptorIndexCut ==
    LastIsFunctionDecl => IndexesCut(prev, Last, current_chunk(Self))


(***************************************************************************)
(* The frame stack across a function declaration                           *)
(***************************************************************************)
LastIsDecl == Compiled /\ ~LastIsStmt /\ Last.kind = "FunctionDecl"

\* The pool `after` holds, right behind the entries of the pool `before`,
\* the function `name` with the chunk `chunk`.
FunctionAdded(before, after, name, chunk) ==
    /\ Len(after) > Len(before)
    /\ SubSeq(after, 1, Len(before)) = before
    /\ after[Len(before) + 1].type = "Function"
    /\ after[Len(before) + 1].func.name = name
    /\ after[Len(before) + 1].func.chunk = chunk

\* compile_function_decl takes the compiler from `before` to `after` on
\* decl.  When the name cannot be declared, frames, chunks, globals and
\* compiler type stay as they were.  Otherwise one frame is pushed for the
\* body and popped behind it, depth and compiler type are those of
\* `before`, the chunks below the parent frame are untouched, the pool of
\* the parent frame is untouched while the body is compiled and receives
\* the function object with the chunk of the body afterwards; and the same
\* holds of every declaration in the body.
RECURSIVE FramesBalanced(_, _, _)
FramesBalanced(before, decl, after) ==
    Bind(declare_symbol(before, decl.name, "Function"), LAMBDA declared :
      IF declared.ret < 0
      THEN /\ after.functions = before.functions
           /\ after.globals = before.globals
           /\ after.compiler_type = before.compiler_type
      ELSE Step(function_prologue(declared.self, decl), LAMBDA prologue :
           Step(function_body(prologue, decl), LAMBDA body :
           Bind(Len(before.functions), LAMBDA depth :
             /\ Len(prologue.functions) = depth + 1
             /\ Len(body.functions) = depth + 1
             /\ Len(after.functions) = depth
             /\ after.compiler_type = before.compiler_type
             /\ \A k \in 1..(depth - 1) :
                    after.functions[k].function.chunk = before.functions[k].function.chunk
             /\ body.functions[depth].function.chunk = current_chunk(before)
             /\ SubSeq(current_chunk(after).codes, 1, Len(current_chunk(before).codes)) =
                    current_chunk(before).codes
             /\ FunctionAdded(current_chunk(before).constants, current_chunk(after).constants,
                              decl.name.lexeme, current_chunk(body))
             /\ \A k \in 1..Len(decl.body) :
                    decl.body[k].kind = "FunctionDecl" =>
                        Step(compile_nodes(prologue, decl.body, 1, k - 1, FALSE), LAMBDA at :
                          FramesBalanced(at, decl.body[k], compile_node(at, decl.body[k])))))))

\* C22: compile_function_decl keeps the frame stack balanced.  When the
\* name is declared it pushes one frame and pops one, so that the depth of
\* the frame stack and the compiler type are afterwards what they were
\* before, at every nesting of declarations, and the finished function
\* object enters the pool of the parent frame only after the pop; when the
\* name cannot be declared no frame is pushed, nothing is emitted and the
\* compiler type is unchanged.
C22_FrameStackBalanced ==
    LastIsDecl => FramesBalanced(prev, Last, Self)

\* fn f(n) { fn g() { n; } fn g() { } } has been declared behind
\* another node: the first g is a closure in the pool of f, the second g
\* is refused as a duplicate and leaves no function behind, and the
\* compiler is back at the script frame.
C22_Witness ==
    /\ Len(program) = 2
    /\ LastIsDecl
    /\ Len(Last.body) = 2
    /\ Last.body[2].kind = "FunctionDecl"
    /\ Last.body[1].kind = "FunctionDecl"
    /\ Last.body[2].name.lexeme = Last.body[1].name.lexeme
    /\ Len(errors) = Len(prev.errors) + 1
    /\ errors[Len(errors)].kind = "Duplication"
    /\ Len(functions) = 1
    /\ compiler_type = "Script"
    /\ Bind(FunctionConstant(Constants, "f").chunk, LAMBDA f :
           /\ Cardinality({i \in 1..Len(f.constants) : f.constants[i].type = "Function"}) = 1
           /\ f.codes[1] = Op("MakeClosure"))


(***************************************************************************)
(* The lexer of numeric literals (src/lexer/lex_numbers.rs)                *)
(***************************************************************************)
\* Longest source text the lexer is started on.
MaxSource == 4

\* The character read at and behind the end of the source.
NUL == "NUL"

\* Characters of the source: digits of radix 2, 8, 10 and 16, the radix
\* letters, the underscore and the dot.
Chars == {"0", "1", "7", "9", "x", "X", "o", "O", "b", "B", "_", "."}

\* char::to_digit: the value of c as a digit, or 36 when it has none.
to_digit(c) ==
    CASE c = "0" -> 0 [] c = "1" -> 1 [] c = "7" -> 7 [] c = "9" -> 9
      [] c \in {"b", "B"} -> 11
      [] OTHER -> 36

\* char::is_digit(radix)
is_digit(c, radix) == to_digit(c) < radix

\* A lexer that has consumed the first character of a numeric token:
\* `current` counts the consumed characters.
NewLexer(source) ==
    [source |-> source, current |-> 1, pc |-> "make_numeric_token", radix |-> 0,
     ret |-> "", started_with_dot |-> FALSE, token |-> "NONE"]

is_at_end(self) == self.current >= Len(self.source)

get_current(self) == IF is_at_end(self) THEN NUL ELSE self.source[self.current + 1]

next(self) ==
    IF self.current + 1 >= Len(self.source) THEN NUL ELSE self.source[self.current + 2]

previous(self) == self.source[self.current]

advance(self) == [self EXCEPT !.current = @ + 1]

\* The token of the characters consumed so far.
make_token(self, type) == [self EXCEPT !.token = type, !.pc = "done"]

\* The call of advance_numeric_digit(radix), behind which the handler goes
\* on at `ret`.
call_advance_numeric_digit(self, radix, ret) ==
    [self EXCEPT !.pc = "advance_numeric_digit", !.radix = radix, !.ret = ret]

\* An underscore is consumed whatever precedes it.
advance_numeric_digit_any_underscore(self, radix) ==
    IF (~is_at_end(self) /\ is_digit(get_current(self), radix)) \/ get_current(self) = "_"
    THEN advance(self)
    ELSE [self EXCEPT !.pc = self.ret]

\* One turn of the loop of advance_numeric_digit: the condition, and the
\* body or the return.
advance_numeric_digit(self, radix) ==
    IF (~is_at_end(self) /\ is_digit(get_current(self), radix))
           \/ (get_current(self) = "_" /\ previous(self) # "_")
    THEN advance(self)
    ELSE [self EXCEPT !.pc = self.ret]

\* The dot is consumed whatever follows it.
make_numeric_token_any_fraction(self) ==
    CASE self.pc = "make_numeric_token" ->
           IF previous(self) = "0" /\ get_current(self) \in {"x", "X"}
           THEN call_advance_numeric_digit(advance(self), 16, "hexadecimal")
           ELSE IF previous(self) = "0" /\ get_current(self) \in {"o", "O"}
           THEN call_advance_numeric_digit(advance(self), 8, "octal")
           ELSE IF previous(self) = "0" /\ get_current(self) \in {"b", "B"}
           THEN call_advance_numeric_digit(advance(self), 2, "binary")
           ELSE call_advance_numeric_digit(
                    [self EXCEPT !.started_with_dot = (previous(self) = ".")], 10, "fraction")
      [] self.pc = "hexadecimal" -> make_token(self, "HEXADECIMAL_LITERAL")
      [] self.pc = "octal" -> make_token(self, "OCTAL_LITERAL")
      [] self.pc = "binary" -> make_token(self, "BINARY_LITERAL")
      [] self.pc = "fraction" ->
           IF ~self.started_with_dot /\ get_current(self) = "."
           THEN call_advance_numeric_digit(advance(self), 10, "float")
           ELSE IF self.started_with_dot THEN make_token(self, "FLOAT_LITERAL")
           ELSE make_token(self, "INTEGER_LITERAL")
      [] self.pc = "float" -> make_token(self, "FLOAT_LITERAL")

\* make_numeric_token from its entry, or from the return of a call of
\* advance_numeric_digit, up to the next such call or to the token.
make_numeric_token(self) ==
    CASE self.pc = "make_numeric_token" ->
           IF previous(self) = "0" /\ get_current(self) \in {"x", "X"}
           THEN call_advance_numeric_digit(advance(self), 16, "hexadecimal")
           ELSE IF previous(self) = "0" /\ get_current(self) \in {"o", "O"}
           THEN call_advance_numeric_digit(advance(self), 8, "octal")
           ELSE IF previous(self) = "0" /\ get_current(self) \in {"b", "B"}
           THEN call_advance_numeric_digit(advance(self), 2, "binary")
           ELSE call_advance_numeric_digit(
                    [self EXCEPT !.started_with_dot = (previous(self) = ".")], 10, "fraction")
      [] self.pc = "hexadecimal" -> make_token(self, "HEXADECIMAL_LITERAL")
      [] self.pc = "octal" -> make_token(self, "OCTAL_LITERAL")
      [] self.pc = "binary" -> make_token(self, "BINARY_LITERAL")
      [] self.pc = "fraction" ->
           IF ~self.started_with_dot /\ get_current(self) = "." /\ is_digit(next(self), 10)
           THEN call_advance_numeric_digit(advance(self), 10, "float")
           ELSE IF self.started_with_dot THEN make_token(self, "FLOAT_LITERAL")
           ELSE make_token(self, "INTEGER_LITERAL")
      [] self.pc = "float" -> make_token(self, "FLOAT_LITERAL")

\* Source texts at whose first character a numeric token starts: a decimal
\* digit, or a dot before a decimal digit.
NumericSources ==
    {source \in UNION {[1..n -> Chars] : n \in 1..MaxSource} :
        \/ is_digit(source[1], 10)
        \/ source[1] = "." /\ Len(source) >= 2 /\ is_digit(source[2], 10)}

InitLexer ==
    /\ CompilerInit
    /\ operands = NoOperands
    /\ lexer \in {NewLexer(source) : source \in NumericSources}

MakeNumericToken ==
    /\ lexer.pc \notin {"advance_numeric_digit", "done"}
    /\ lexer' = make_numeric_token(lexer)
    /\ UNCHANGED <<functions, globals, compiler_type, errors, is_in_panic, prev, program,
                   operands>>

AdvanceNumericDigit ==
    /\ lexer.pc = "advance_numeric_digit"
    /\ lexer' = advance_numeric_digit(lexer, lexer.radix)
    /\ UNCHANGED <<functions, globals, compiler_type, errors, is_in_panic, prev, program,
                   operands>>

NextLexer == MakeNumericToken \/ AdvanceNumericDigit

SpecLexer == InitLexer /\ [][NextLexer]_vars

\* The lexer is one sequential routine: its next step is always taken.
SpecLexerFair == SpecLexer /\ WF_vars(NextLexer)


(***************************************************************************)
(* Numeric tokens                                                          *)
(***************************************************************************)
Scanned == lexer.pc = "done"

\* The characters of the token.
Lexeme == SubSeq(lexer.source, 1, lexer.current)

\* Character j of source goes on a run of digits of the radix: it is such
\* a digit, or an underscore that does not follow an underscore.
Continues(source, j, radix) ==
    is_digit(source[j], radix) \/ (source[j] = "_" /\ source[j - 1] # "_")

\* Index of the last character of the run that follows character `from`.
RunEnd(source, from, radix) ==
    Min({i \in from..Len(source) : i = Len(source) \/ ~Continues(source, i + 1, radix)})

Prefixed(source, letters) ==
    Len(source) >= 2 /\ source[1] = "0" /\ source[2] \in letters

\* The token type the shape of source asks for, and the index of the last
\* character of the token.
NumericShape(source) ==
    IF Prefixed(source, {"x", "X"})
    THEN [token |-> "HEXADECIMAL_LITERAL", last |-> RunEnd(source, 2, 16)]
    ELSE IF Prefixed(source, {"o", "O"})
    THEN [token |-> "OCTAL_LITERAL", last |-> RunEnd(source, 2, 8)]
    ELSE IF Prefixed(source, {"b", "B"})
    THEN [token |-> "BINARY_LITERAL", last |-> RunEnd(source, 2, 2)]
    ELSE IF source[1] = "."
    THEN [token |-> "FLOAT_LITERAL", last |-> RunEnd(source, 1, 10)]
    ELSE LET digits == RunEnd(source, 1, 10)
         IN IF /\ digits + 2 <= Len(source)
               /\ source[digits + 1] = "."
               /\ is_digit(source[digits + 2], 10)
            THEN [token |-> "FLOAT_LITERAL", last |-> RunEnd(source, digits + 1, 10)]
            ELSE [token |-> "INTEGER_LITERAL", last |-> digits]

\* C23: make_numeric_token classifies every token by its shape.  A leading
\* 0 followed by x/X, o/O or b/B gives HEXADECIMAL_LITERAL, OCTAL_LITERAL
\* or BINARY_LITERAL; otherwise a token that started with a dot, or whose
\* digits are followed by a dot and a decimal digit, gives FLOAT_LITERAL
\* with the fractional part consumed; otherwise INTEGER_LITERAL, and a dot
\* that no digit follows is not consumed.
C23_NumericTokenByShape ==
    Scanned =>
        /\ lexer.token = NumericShape(lexer.source).token
        /\ lexer.current = NumericShape(lexer.source).last

\* A float whose fractional part has been consumed, and behind it a dot
\* that stays in the source (as in 1.5.).
C23_Witness ==
    /\ Scanned
    /\ lexer.token = "FLOAT_LITERAL"
    /\ ~lexer.started_with_dot
    /\ lexer.current = Len(lexer.source) - 1
    /\ lexer.source[lexer.current + 1] = "."
    /\ is_digit(lexer.source[lexer.current], 10)


(***************************************************************************)
(* Termination of the digit loop                                           *)
(***************************************************************************)
NoDoubleUnderscore(chars) ==
    \A i \in 1..(Len(chars) - 1) : ~(chars[i] = "_" /\ chars[i + 1] = "_")

\* The places where the loop of advance_numeric_digit(radix) stops.
StopsHere(self, radix) ==
    \/ is_at_end(self)
    \/ ~is_digit(get_current(self), radix) /\ get_current(self) # "_"
    \/ get_current(self) = "_" /\ previous(self) = "_"

\* A turn of the loop either consumes one character or returns, and it
\* returns exactly at a stopping place.
LoopTurn ==
    lexer.pc = "advance_numeric_digit" =>
        IF StopsHere(lexer, lexer.radix)
        THEN lexer'.pc = lexer.ret /\ lexer'.current = lexer.current
        ELSE lexer'.pc = lexer.pc /\ lexer'.current = lexer.current + 1

\* C24: advance_numeric_digit terminates on every input: it stops at the
\* end of the input, at the first character that is neither a digit of the
\* radix nor an underscore, and at an underscore that directly follows an
\* underscore; so the token is made, no numeric token holds two
\* underscores in a row, and the lexer never advances past the end of the
\* source.
C24_NumericDigitsTerminate ==
    /\ <>Scanned
    /\ [][LoopTurn]_vars
    /\ [](lexer.current <= Len(lexer.source) /\ NoDoubleUnderscore(Lexeme))

\* The loop has stopped at the second of two underscores (as in 1__), and
\* the token is made of what precedes it.
C24_Witness ==
    /\ Scanned
    /\ lexer.current < Len(lexer.source)
    /\ lexer.source[lexer.current] = "_"
    /\ lexer.source[lexer.current + 1] = "_"


(***************************************************************************)
(* Object equality (src/objects/mod.rs)                                    *)
(***************************************************************************)
\* Longest array or tuple that is compared.
MaxElements == 2

ObjRange(min, max) == [type |-> "Range", min |-> min, max |-> max]
ObjTuple(objects) == [type |-> "Tuple", objects |-> objects]
ObjArray(objects) == [type |-> "Array", objects |-> objects]

RECURSIVE equals(_, _)

\* The vectors have the same length and equal objects at every index.
obj_vectors_equal(v1, v2) ==
    IF Len(v1) # Len(v2) THEN FALSE
    ELSE \A i \in 1..Len(v1) : equals(v1[i], v2[i])

\* An Int equals no Bool.
equals_int_never_bool(self, right) ==
    CASE self.type = "Int" ->
           (CASE right.type = "Int" -> self.int = right.int
              [] right.type = "Float" -> right.float - self.int = 0
              [] OTHER -> FALSE)
      [] self.type = "Float" ->
           (CASE right.type = "Int" -> self.float - right.int = 0
              [] right.type = "Float" -> self.float = right.float
              [] right.type = "Bool" ->
                   (self.float = 0 /\ ~right.bool) \/ (self.float = 1 /\ right.bool)
              [] OTHER -> FALSE)
      [] self.type = "Bool" ->
           (CASE right.type = "Int" ->
                   (right.int = 0 /\ ~self.bool) \/ (right.int = 1 /\ self.bool)
              [] right.type = "Float" ->
                   (right.float = 0 /\ ~self.bool) \/ (right.float = 1 /\ self.bool)
              [] right.type = "Bool" -> self.bool = right.bool
              [] OTHER -> FALSE)
      [] self.type = "String" -> IF right.type = "String" THEN self.str = right.str ELSE FALSE
      [] self.type = "Array" ->
           IF right.type = "Array" THEN obj_vectors_equal(self.objects, right.objects)
           ELSE FALSE
      [] self.type = "Tuple" ->
           IF right.type = "Tuple" THEN obj_vectors_equal(self.objects, right.objects)
           ELSE FALSE
      [] self.type = "Range" ->
           IF right.type = "Range" THEN self.min = right.min /\ self.max = right.max
           ELSE FALSE
      [] self.type = "Null" -> right.type = "Null"
      [] OTHER -> FALSE

\* Object::equals on the variants whose equality is one of value: the
\* match on self, and in each arm the match on right.  (Dictionaries and
\* the variants compared by identity are not drawn.)
equals(self, right) ==
    CASE self.type = "Int" ->
           (CASE right.type = "Int" -> self.int = right.int
              [] right.type = "Float" -> right.float - self.int = 0
              [] right.type = "Bool" ->
                   (self.int = 0 /\ ~right.bool) \/ (self.int = 1 /\ right.bool)
              [] OTHER -> FALSE)
      [] self.type = "Float" ->
           (CASE right.type = "Int" -> self.float - right.int = 0
              [] right.type = "Float" -> self.float = right.float
              [] right.type = "Bool" ->
                   (self.float = 0 /\ ~right.bool) \/ (self.float = 1 /\ right.bool)
              [] OTHER -> FALSE)
      [] self.type = "Bool" ->
           (CASE right.type = "Int" ->
                   (right.int = 0 /\ ~self.bool) \/ (right.int = 1 /\ self.bool)
              [] right.type = "Float" ->
                   (right.float = 0 /\ ~self.bool) \/ (right.float = 1 /\ self.bool)
              [] right.type = "Bool" -> self.bool = right.bool
              [] OTHER -> FALSE)
      [] self.type = "String" -> IF right.type = "String" THEN self.str = right.str ELSE FALSE
      [] self.type = "Array" ->
           IF right.type = "Array" THEN obj_vectors_equal(self.objects, right.objects)
           ELSE FALSE
      [] self.type = "Tuple" ->
           IF right.type = "Tuple" THEN obj_vectors_equal(self.objects, right.objects)
           ELSE FALSE
      [] self.type = "Range" ->
           IF right.type = "Range" THEN self.min = right.min /\ self.max = right.max
           ELSE FALSE
      [] self.type = "Null" -> right.type = "Null"
      [] OTHER -> FALSE

\* Values of the variants Null, Bool, Int, String and Range.
Scalars ==
    {ObjNull, ObjBool(FALSE), ObjBool(TRUE), ObjInt(0), ObjInt(1), ObjInt(2),
     ObjString("a"), ObjString("1"), ObjRange(0, 1), ObjRange(0, 2), ObjRange(1, 1)}

\* Objects held by the arrays and tuples that are compared.
Elements ==
    {ObjNull, ObjBool(TRUE), ObjInt(1), ObjString("a"), ObjTuple(<<ObjInt(1)>>)}

Vectors == UNION {[1..n -> Elements] : n \in 0..MaxElements}

Objects ==
    Scalars \cup {ObjTuple(objects) : objects \in Vectors}
            \cup {ObjArray(objects) : objects \in Vectors}

InitEquals ==
    /\ CompilerInit
    /\ lexer = NoLexer
    /\ operands \in {[pc |-> "equals", left |-> left, right |-> right,
                      forth |-> FALSE, back |-> FALSE] : left \in Objects, right \in Objects}

\* left.equals(right) and right.equals(left) are evaluated.
Equals ==
    /\ operands.pc = "equals"
    /\ operands' = [operands EXCEPT !.pc = "done",
                                    !.forth = equals(operands.left, operands.right),
                                    !.back = equals(operands.right, operands.left)]
    /\ UNCHANGED <<functions, globals, compiler_type, errors, is_in_panic, prev, program,
                   lexer>>

SpecEquals == InitEquals /\ [][Equals]_vars

Compared == operands.pc = "done"

\* C25: Object::equals is symmetric on the values built from Null, Bool,
\* Int, String and Range and on tuples and arrays of them: a.equals(b) is
\* b.equals(a) for every pair; Int 0 and Int 1 equal Bool false and Bool
\* true in both directions (and no other Int equals a Bool); Null equals
\* Null only; a String or a Range never equals a value of another variant.
C25_EqualsSymmetric ==
    Compared =>
        /\ operands.forth = operands.back
        /\ (operands.left.type = "Int" /\ operands.right.type = "Bool") =>
               /\ operands.forth = (operands.left.int = (IF operands.right.bool THEN 1 ELSE 0))
               /\ operands.back = operands.forth
        /\ operands.left.type = "Null" => (operands.forth = (operands.right.type = "Null"))
        /\ (operands.left.type \in {"String", "Range"}
                /\ operands.right.type # operands.left.type) =>
               ~operands.forth /\ ~operands.back

\* The arrays [1, null] and [true, null] have been compared: they are equal in
\* both directions, through the equality of Int 1 and Bool true.
C25_Witness ==
    /\ Compared
    /\ operands.left = ObjArray(<<ObjInt(1), ObjNull>>)
    /\ operands.right = ObjArray(<<ObjBool(TRUE), ObjNull>>)
    /\ operands.forth
    /\ operands.back

====
